---- MODULE Spec2Model ----
(***************************************************************************)
(* DQMaster: rule-based validation of imported spreadsheet data.           *)
(*                                                                         *)
(* The module models                                                       *)
(*   - the Rule schema validator, the rule plugins and the group evaluator *)
(*     as pure operators (specification SpecPure),                         *)
(*   - the per-project store, the import of one upload and its SQLite      *)
(*     transaction (specification SpecImport),                             *)
(*   - the validation orchestrator of main.py with its status tracker      *)
(*     (specification SpecRun),                                            *)
(*   - the start handlers of main.py and of the dqmaster service with the  *)
(*     asyncio scheduling of their tasks (specification SpecStart),        *)
(*   - the full-structure update of a project, PUT /api/projects/{id}      *)
(*     (specification SpecUpdate),                                         *)
(*   - the deletion of a rule group around a validation run                *)
(*     (specification SpecGroup), and a run under a fair scheduler         *)
(*     (specification SpecLive).                                           *)
(*                                                                         *)
(* Python values are modelled as follows: None is the string None below,   *)
(* cell values are short strings, a dict is a function whose domain is its *)
(* key set, a list is a sequence (position p of a Python list is index     *)
(* p + 1 of the sequence), a raised exception is a record with the field   *)
(* raised.                                                                 *)
(***************************************************************************)
EXTENDS Integers, Sequences, FiniteSets, TLC

VARIABLES
    call,                \* the pure-function call under test: arguments and result
    store,               \* committed content of the per-project SQLite store
    imp,                 \* the import thread of one upload (_import_excel_to_db)
    VALIDATION_STATUS,   \* main.py: the status record of the project, or NoStatus
    tasks,               \* main.py: the _run_validation_async tasks, by task id
    loop,                \* the task that holds the asyncio event loop, 0 when idle
    RULE_GROUPS_REGISTRY, \* main.py: the rule groups, by group id
    svc,                 \* dqmaster: StatusStorage record and the service's tasks
    env,                 \* the requests the clients still send
    resp                 \* the last response of the results endpoint

vars == <<call, store, imp, VALIDATION_STATUS, tasks, loop, RULE_GROUPS_REGISTRY, svc, env, resp>>

(***************************************************************************)
(* Bounds of the model.                                                    *)
(***************************************************************************)
MaxGroupRules == 2       \* member rules of a rule group
MaxCol == 3              \* rows of a column given to validate_column
MaxOrder == 2            \* values of Rule.order
MaxRows == 3              \* data rows of an imported sheet
MaxRules == 2             \* rules configured on a field

(***************************************************************************)
(* Python values.                                                          *)
(***************************************************************************)
None == "None"
EmptyDict == [k \in {} |-> None]

Get(d, k) == IF k \in DOMAIN d THEN d[k] ELSE None

\* a params value: a dict; None and {} are both held as the empty dict (every
\* reader of params treats the two alike: "params or {}", "if params")
NoParams == EmptyDict

\* str.strip() and str.lower() on the cell texts of the model
Strip(s) ==
    CASE s = " a" -> "a"
      [] s = " "  -> ""
      [] OTHER    -> s

Lower(s) ==
    CASE s = "A"  -> "a"
      [] OTHER    -> s

\* all sequences over S of length at most n
SeqsUpTo(S, n) == UNION {[1..k -> S] : k \in 0..n}

\* no pure-function call under test
NoCall == [fn |-> "", done |-> TRUE, result |-> EmptyDict]

\* pd.isna(value) on a scalar
IsNa(v) == v = None

\* the texts float(value) parses; "nan" is what astype(str) makes of a blank cell
FloatTexts == {"1", "nan"}

(***************************************************************************)
(* Schema model: the root validator of Rule.                               *)
(***************************************************************************)
\* a variant of the validator: truthiness instead of "is None"
check_type_or_group_id_exists_truthy(values) ==
    LET t == Get(values, "type")
        g == Get(values, "group_id")
    IN  IF (t = None \/ t = "") /\ (g = None \/ g = "")
        THEN [raised |-> "ValueError", msg |-> "Either type or group_id must be provided."]
        ELSE IF ~(t = None \/ t = "") /\ ~(g = None \/ g = "")
        THEN [raised |-> "ValueError", msg |-> "Cannot provide both type and group_id."]
        ELSE [raised |-> "", msg |-> ""]

check_type_or_group_id_exists(values) ==
    LET t == Get(values, "type")
        g == Get(values, "group_id")
    IN  IF t = None /\ g = None
        THEN [raised |-> "ValueError", msg |-> "Either type or group_id must be provided."]
        ELSE IF t # None /\ g # None
        THEN [raised |-> "ValueError", msg |-> "Cannot provide both type and group_id."]
        ELSE [raised |-> "", msg |-> ""]

\* Rule(**values): the pre root validator runs first, then the field validation
\* (order: int is the only required field)
Rule(values) ==
    LET pre == check_type_or_group_id_exists(values)
    IN  IF pre.raised # ""
        THEN [raised |-> "ValidationError", rule |-> EmptyDict]
        ELSE IF "order" \notin DOMAIN values
        THEN [raised |-> "ValidationError", rule |-> EmptyDict]
        ELSE [raised |-> "",
              rule |-> [type     |-> Get(values, "type"),
                        group_id |-> Get(values, "group_id"),
                        params   |-> IF "params" \in DOMAIN values
                                     THEN values["params"] ELSE NoParams,
                        order    |-> values["order"]]]

(***************************************************************************)
(* Rule Registry: the plugins of rules/ as load_rules registers them.      *)
(* The registered validator is always the module's validate function; the *)
(* display names (RULE_NAME) are given in English.                         *)
(***************************************************************************)
BoolResult(b) == [kind |-> "bool", is_valid |-> b]
DictResult(b) == [kind |-> "dict", is_valid |-> b]

not_empty_validate(value) ==
    IF IsNa(value) THEN BoolResult(FALSE)
    ELSE IF Strip(value) = "" THEN BoolResult(FALSE)
    ELSE BoolResult(TRUE)

is_number_validate(value, params) ==
    IF IsNa(value) \/ value = "" THEN BoolResult(TRUE)
    ELSE IF Strip(value) \notin FloatTexts THEN BoolResult(FALSE)
    ELSE BoolResult(TRUE)

no_leading_trailing_spaces_validate(value, params) ==
    IF IsNa(value) THEN DictResult(TRUE)
    ELSE IF Strip(value) = "" THEN DictResult(TRUE)
    ELSE IF value # Strip(value) THEN DictResult(FALSE)
    ELSE DictResult(TRUE)

\* the stub that unique_value.py exports as validate
unique_value_validate(value, params) == DictResult(FALSE)

RULE_REGISTRY ==
    [not_empty |->
        [name |-> "Not empty", needs_column_access |-> FALSE, has_params |-> FALSE],
     is_number |->
        [name |-> "Value must be a number", needs_column_access |-> FALSE, has_params |-> TRUE],
     no_leading_trailing_spaces |->
        [name |-> "No leading/trailing spaces", needs_column_access |-> FALSE,
         has_params |-> TRUE],
     unique_value |->
        [name |-> "Unique value", needs_column_access |-> TRUE, has_params |-> TRUE]]

RegisteredIds == DOMAIN RULE_REGISTRY

\* rule_def["validator"](value) for a registered id
Validator1(id, value) ==
    CASE id = "not_empty" -> not_empty_validate(value)
      [] id = "is_number" -> is_number_validate(value, NoParams)
      [] id = "no_leading_trailing_spaces" -> no_leading_trailing_spaces_validate(value, NoParams)
      [] OTHER -> unique_value_validate(value, NoParams)

\* rule_def["validator"](value, params=params): a validate(value) without a
\* params parameter raises TypeError on the keyword argument
Validator2(id, value, params) ==
    CASE id = "not_empty" -> [kind |-> "raise", is_valid |-> FALSE]
      [] id = "is_number" -> is_number_validate(value, params)
      [] id = "no_leading_trailing_spaces" -> no_leading_trailing_spaces_validate(value, params)
      [] OTHER -> unique_value_validate(value, params)

\* is_valid = result if isinstance(result, bool) else result.get("is_valid", False)
CoerceIsValid(result) == result.is_valid

(***************************************************************************)
(* Group evaluation.                                                       *)
(***************************************************************************)
\* the results list of _validate_group: one coerced verdict per registered member
RECURSIVE GroupResults(_, _)
GroupResults(value, refs) ==
    IF refs = << >> THEN << >>
    ELSE LET ref == Head(refs)
             rest == GroupResults(value, Tail(refs))
         IN  IF ref.id \notin RegisteredIds THEN rest
             ELSE LET result == IF RULE_REGISTRY[ref.id].has_params
                                THEN Validator2(ref.id, value, ref.params)
                                ELSE Validator1(ref.id, value)
                  IN  <<CoerceIsValid(result)>> \o rest

\* a variant of the logic: classical AND/OR (the two branches exchanged)
GroupIsErrorSwapped(logic, results) ==
    IF logic = "AND"
    THEN \E i \in 1..Len(results) : ~results[i]
    ELSE \A i \in 1..Len(results) : ~results[i]

GroupIsError(logic, results) ==
    IF logic = "AND"
    THEN \A i \in 1..Len(results) : ~results[i]
    ELSE \E i \in 1..Len(results) : ~results[i]

_validate_group(value, group) ==
    LET is_error == GroupIsError(group.logic, GroupResults(value, group.rules))
    IN  [is_valid |-> ~is_error,
         errors   |-> IF is_error THEN group.name ELSE None]

(***************************************************************************)
(* The uniqueness rule's column validator (rules/unique_value.py).         *)
(* A column is a pandas Series: index labels and values, position by       *)
(* position.                                                               *)
(***************************************************************************)
\* is_valid_list[idx] = False for every idx of labels, on a Python list of
\* length n held as a sequence: a label in -n..n-1 addresses a position
\* (negative labels count from the end), any other raises IndexError
RECURSIVE ListClearAt(_, _)
ListClearAt(list, labels) ==
    IF labels = << >> THEN [raised |-> "", list |-> list]
    ELSE LET n == Len(list)
             idx == Head(labels)
         IN  IF idx >= n \/ idx < -n
             THEN [raised |-> "IndexError", list |-> << >>]
             ELSE LET pos == IF idx >= 0 THEN idx + 1 ELSE n + idx + 1
                  IN  ListClearAt([list EXCEPT ![pos] = FALSE], Tail(labels))

\* the sub-sequence of seq at the positions of set P, in order
RECURSIVE SelectAt(_, _, _)
SelectAt(seq, P, k) ==
    IF k > Len(seq) THEN << >>
    ELSE (IF k \in P THEN <<seq[k]>> ELSE << >>) \o SelectAt(seq, P, k + 1)

\* the key two cells are compared by
UniqueKey(v, case_sensitive) ==
    IF case_sensitive THEN Strip(v) ELSE Lower(Strip(v))

\* non_empty_column[duplicates].index
DuplicateLabels(column, dupPos) == SelectAt(column.index, dupPos, 1)

validate_column(column, params) ==
    LET n == Len(column.values)
        case_sensitive == IF "case_sensitive" \in DOMAIN params
                          THEN params["case_sensitive"] ELSE TRUE
        nonEmpty == {k \in 1..n : ~IsNa(column.values[k]) /\ Strip(column.values[k]) # ""}
        key(k) == UniqueKey(column.values[k], case_sensitive)
        dupPos == {k \in nonEmpty : \E j \in nonEmpty \ {k} : key(j) = key(k)}
        allTrue == [k \in 1..n |-> TRUE]
    IN  IF nonEmpty = {}
        THEN [raised |-> "", is_valid |-> allTrue]
        ELSE LET r == ListClearAt(allTrue, DuplicateLabels(column, dupPos))
             IN  [raised |-> r.raised, is_valid |-> r.list]

(***************************************************************************)
(* Relational Store: the per-project SQLite store (database.py).           *)
(* A table is the sequence of its rows in rowid order.                     *)
(***************************************************************************)
EmptyStore ==
    [files |-> << >>, sheets |-> << >>, fields |-> << >>, rules |-> << >>,
     tables |-> EmptyDict,
     validation_results |-> << >>, validation_errors |-> << >>]

\* normalize_name_for_sqlite on the sheet and column names of the model:
\* non-word characters become "_", runs of "_" collapse, the ends are
\* stripped of "_", and the result is lower-cased
normalize_name_for_sqlite(name) ==
    CASE name = "A"       -> "a"
      [] name = "a"       -> "a"
      [] name = "B"       -> "b"
      [] name = "S"       -> "s"
      [] name = "S1"      -> "s1"
      [] name = "S2"      -> "s2"
      [] name = "w.xls-S" -> "w_xls_s"
      [] OTHER            -> name

\* the names of the model in the order of SQLite's BINARY collation
NameOrder == <<"A", "B", "N", "S", "S1", "S2", "a", "w.xls-S">>
NameRank(name) == CHOOSE i \in 1..Len(NameOrder) : NameOrder[i] = name

\* rows sorted by name (ORDER BY name), a stable insertion sort
RECURSIVE SortByName(_)
SortByName(seq) ==
    IF seq = << >> THEN << >>
    ELSE LET rest == SortByName(Tail(seq))
             h == Head(seq)
             before == SelectSeq(rest, LAMBDA x : NameRank(x.name) < NameRank(h.name))
             after == SelectSeq(rest, LAMBDA x : NameRank(x.name) >= NameRank(h.name))
         IN  before \o <<h>> \o after

\* rules sorted by order (ORDER BY order_num, sorted(key=order)), stable
RECURSIVE SortByOrder(_)
SortByOrder(seq) ==
    IF seq = << >> THEN << >>
    ELSE LET rest == SortByOrder(Tail(seq))
             h == Head(seq)
             before == SelectSeq(rest, LAMBDA x : x.order < h.order)
             after == SelectSeq(rest, LAMBDA x : x.order >= h.order)
         IN  before \o <<h>> \o after

\* f with the key k bound to v
Put(f, k, v) == (k :> v) @@ f

SeqToSet(seq) == {seq[i] : i \in 1..Len(seq)}

HasDuplicates(seq) == \E i, j \in 1..Len(seq) : i # j /\ seq[i] = seq[j]

(***************************************************************************)
(* Import Pipeline: _import_excel_to_db.                                   *)
(* A workbook is a sequence of sheets [name, columns, rows]; a cell is a   *)
(* text or Blank.  work is the connection's view of the store (with its    *)
(* uncommitted writes); store is what is committed.                        *)
(***************************************************************************)
Blank == "<blank>"

\* df[col].astype(str): a blank cell (NaN) becomes the text "nan"
AsTypeStr(cell) == IF cell = Blank THEN "nan" ELSE cell

NewId(prefix, n) == prefix \o ToString(n)

DataTableName(sheet_name, sheet_id) ==
    "data_sheet_" \o normalize_name_for_sqlite(sheet_name) \o "_" \o sheet_id

\* CREATE TABLE "<table>" (_row_id INTEGER PRIMARY KEY AUTOINCREMENT, <cols> TEXT...)
\* is refused for an empty column list (a syntax error), for a repeated
\* column name, for a column named _row_id and for a table that exists
CreateTableFails(tables, table_name, columns) ==
    \/ columns = << >>
    \/ HasDuplicates(columns)
    \/ \E i \in 1..Len(columns) : columns[i] = "_row_id"
    \/ table_name \in DOMAIN tables

\* a variant of the row count: the header row is counted as well
RowCountWithHeader(sheet) == Len(sheet.rows) + 1

\* len(df): the data rows pd.read_excel reads below the header row
RowCount(sheet) == Len(sheet.rows)

\* the steps 2 to 5 of the loop body for one sheet, on the connection's view:
\* [raised, work, committed, uuid]; committed tells that df.to_sql ran (pandas
\* commits the connection at the end of its insert)
ImportSheet(work, file_id, sheet, uuid) ==
    LET sheet_id == NewId("s", uuid + 1)
        table_name == DataTableName(sheet.name, sheet_id)
        nrows == Len(sheet.rows)
        sheet_row == [id |-> sheet_id, file_id |-> file_id, name |-> sheet.name,
                      is_active |-> TRUE, data_table_name |-> table_name,
                      row_count |-> RowCount(sheet)]
        columns == [i \in 1..Len(sheet.columns) |->
                        normalize_name_for_sqlite(sheet.columns[i])]
        w1 == [work EXCEPT !.sheets = Append(@, sheet_row)]
    IN  IF CreateTableFails(work.tables, table_name, columns)
        THEN [raised |-> "OperationalError", work |-> w1, committed |-> FALSE,
              uuid |-> uuid + 1]
        ELSE LET field_rows == [i \in 1..Len(sheet.columns) |->
                                   [id |-> NewId("c", uuid + 1 + i), sheet_id |-> sheet_id,
                                    name |-> sheet.columns[i], is_required |-> FALSE]]
                 data_rows == [r \in 1..nrows |->
                                   [_row_id |-> r,
                                    cells |-> [i \in 1..Len(columns) |->
                                                  AsTypeStr(sheet.rows[r][i])]]]
                 w2 == [w1 EXCEPT
                          !.fields = @ \o field_rows,
                          !.tables = Put(@, table_name,
                                         [columns |-> columns, rows |-> data_rows])]
             IN  [raised |-> "", work |-> w2, committed |-> nrows > 0,
                  uuid |-> uuid + 1 + Len(sheet.columns)]

\* the whole of a successful import, sheet after sheet (used to build the
\* initial stores of the other specifications)
RECURSIVE ImportSheets(_, _, _, _)
ImportSheets(work, file_id, sheets, uuid) ==
    IF sheets = << >> THEN work
    ELSE LET r == ImportSheet(work, file_id, Head(sheets), uuid)
         IN  ImportSheets(r.work, file_id, Tail(sheets), r.uuid)

FileRow(file_id, original_name) ==
    [id |-> file_id, original_name |-> original_name, saved_name |-> file_id \o ".xlsx"]

Imported(st, original_name, workbook, uuid) ==
    LET file_id == NewId("f", uuid + 1)
    IN  ImportSheets([st EXCEPT !.files = Append(@, FileRow(file_id, original_name))],
                     file_id, workbook.sheets, uuid + 1)

\* the uuids one import draws
UuidsOf(workbook) ==
    LET n == Len(workbook.sheets)
        RECURSIVE Sum(_)
        Sum(k) == IF k = 0 THEN 0 ELSE 1 + Len(workbook.sheets[k].columns) + Sum(k - 1)
    IN  1 + Sum(n)

IdleImport == [pc |-> "idle", uuid |-> 0]

(***************************************************************************)
(* The import of one upload as steps of its thread.                        *)
(***************************************************************************)
\* the upload handler up to the start of the import thread: pd.ExcelFile
\* parses the bytes, the connection opens, BEGIN, INSERT INTO files
UploadBegin(original_name, workbook) ==
    /\ imp.pc = "idle"
    /\ env.uploads > 0
    /\ env' = [env EXCEPT !.uploads = @ - 1]
    /\ IF ~workbook.readable
       THEN imp' = [pc |-> "failed", uuid |-> imp.uuid + 1, before |-> store,
                    file_id |-> NewId("f", imp.uuid + 1)]
       ELSE LET file_id == NewId("f", imp.uuid + 1)
            IN  imp' = [pc |-> "sheets", uuid |-> imp.uuid + 1, before |-> store,
                        file_id |-> file_id, workbook |-> workbook, k |-> 1,
                        work |-> [store EXCEPT
                                    !.files = Append(@, FileRow(file_id, original_name))]]
    /\ UNCHANGED <<call, store, VALIDATION_STATUS, tasks, loop, RULE_GROUPS_REGISTRY, svc, resp>>

\* one pass of the loop over xls.sheet_names; an exception ends the import:
\* conn.rollback() drops what the connection has not committed
ImportSheetStep ==
    /\ imp.pc = "sheets"
    /\ imp.k <= Len(imp.workbook.sheets)
    /\ LET r == ImportSheet(imp.work, imp.file_id, imp.workbook.sheets[imp.k], imp.uuid)
       IN  IF r.raised # ""
           THEN /\ imp' = [pc |-> "failed", uuid |-> r.uuid, before |-> imp.before,
                           file_id |-> imp.file_id]
                /\ store' = store
           ELSE /\ imp' = [imp EXCEPT !.work = r.work, !.uuid = r.uuid, !.k = @ + 1]
                /\ store' = IF r.committed THEN r.work ELSE store
    /\ UNCHANGED <<call, VALIDATION_STATUS, tasks, loop, RULE_GROUPS_REGISTRY, svc, env, resp>>

\* conn.commit() after the last sheet; the handler returns the FileSchema
ImportFinish ==
    /\ imp.pc = "sheets"
    /\ imp.k > Len(imp.workbook.sheets)
    /\ store' = imp.work
    /\ imp' = [pc |-> "done", uuid |-> imp.uuid, before |-> imp.before,
               file_id |-> imp.file_id, workbook |-> imp.workbook]
    /\ UNCHANGED <<call, VALIDATION_STATUS, tasks, loop, RULE_GROUPS_REGISTRY, svc, env, resp>>

(***************************************************************************)
(* Reading and updating the project structure.                             *)
(***************************************************************************)
RECURSIVE Flatten(_)
Flatten(seqs) == IF seqs = << >> THEN << >> ELSE Head(seqs) \o Flatten(Tail(seqs))

NoProject == [found |-> FALSE, files |-> << >>]

\* the Rule model of a stored rule row, or the raised ValidationError
RuleOfRow(r) ==
    Rule(("id" :> r.id) @@ ("type" :> r.rule_type) @@ ("group_id" :> r.group_id)
         @@ ("params" :> r.params) @@ ("order" :> r.order_num))

RuleWithId(r) ==
    [id |-> r.id, type |-> RuleOfRow(r).rule.type, group_id |-> RuleOfRow(r).rule.group_id,
     params |-> RuleOfRow(r).rule.params, order |-> RuleOfRow(r).rule.order]

\* _build_project_model_from_db: one query per level, files by upload time,
\* sheets and fields by name, rules by order_num; a stored rule that the Rule
\* model rejects makes the whole read fail (None)
_build_project_model_from_db(st) ==
    LET RulesOf(field_id) ==
            LET rows == SelectSeq(st.rules, LAMBDA r : r.field_id = field_id)
            IN  SortByOrder([i \in 1..Len(rows) |-> RuleWithId(rows[i])])
        FieldsOf(sheet_id) ==
            LET rows == SortByName(SelectSeq(st.fields, LAMBDA f : f.sheet_id = sheet_id))
            IN  [i \in 1..Len(rows) |->
                    [id |-> rows[i].id, name |-> rows[i].name,
                     is_required |-> rows[i].is_required, rules |-> RulesOf(rows[i].id)]]
        SheetsOf(file_id) ==
            LET rows == SortByName(SelectSeq(st.sheets, LAMBDA sh : sh.file_id = file_id))
            IN  [i \in 1..Len(rows) |->
                    [id |-> rows[i].id, name |-> rows[i].name,
                     is_active |-> rows[i].is_active, fields |-> FieldsOf(rows[i].id)]]
        reached == {r \in SeqToSet(st.rules) :
                       \E f \in SeqToSet(st.fields) : \E sh \in SeqToSet(st.sheets) :
                           \E fl \in SeqToSet(st.files) :
                               r.field_id = f.id /\ f.sheet_id = sh.id /\ sh.file_id = fl.id}
    IN  IF \E r \in reached : RuleOfRow(r).raised # ""
        THEN NoProject
        ELSE [found |-> TRUE,
              files |-> [i \in 1..Len(st.files) |->
                            [id |-> st.files[i].id, name |-> st.files[i].original_name,
                             saved_name |-> st.files[i].saved_name,
                             sheets |-> SheetsOf(st.files[i].id)]]]

\* a variant of the upsert of sheets: INSERT OR REPLACE, the row in conflict is
\* replaced by the inserted one and its other columns take their defaults
RECURSIVE UpsertSheetsReplace(_, _)
UpsertSheetsReplace(table, rows) ==
    IF rows = << >> THEN table
    ELSE LET r == Head(rows)
             hit == {i \in 1..Len(table) : table[i].id = r.id}
             row == [id |-> r.id, file_id |-> r.file_id, name |-> r.name,
                     is_active |-> r.is_active,
                     data_table_name |-> None, row_count |-> 0]
             next == IF hit = {} THEN Append(table, row)
                     ELSE [i \in 1..Len(table) |-> IF i \in hit THEN row ELSE table[i]]
         IN  UpsertSheetsReplace(next, Tail(rows))

\* INSERT ... ON CONFLICT(id) DO UPDATE for the rows of one table, in order
RECURSIVE UpsertSheets(_, _)
UpsertSheets(table, rows) ==
    IF rows = << >> THEN table
    ELSE LET r == Head(rows)
             hit == {i \in 1..Len(table) : table[i].id = r.id}
             next == IF hit = {}
                     THEN Append(table, [id |-> r.id, file_id |-> r.file_id, name |-> r.name,
                                         is_active |-> r.is_active,
                                         data_table_name |-> None, row_count |-> 0])
                     ELSE [i \in 1..Len(table) |->
                              IF i \in hit
                              THEN [table[i] EXCEPT !.file_id = r.file_id, !.name = r.name,
                                                    !.is_active = r.is_active]
                              ELSE table[i]]
         IN  UpsertSheets(next, Tail(rows))

\* a variant of the upsert: a plain insert, the conflict on id not handled
UpsertRowsAppend(table, rows) == table \o rows

\* fields and rules: every column of the row is given, so the upserted row is
\* the given row
RECURSIVE UpsertRows(_, _)
UpsertRows(table, rows) ==
    IF rows = << >> THEN table
    ELSE LET r == Head(rows)
             hit == {i \in 1..Len(table) : table[i].id = r.id}
             next == IF hit = {} THEN Append(table, r)
                     ELSE [i \in 1..Len(table) |-> IF i \in hit THEN r ELSE table[i]]
         IN  UpsertRows(next, Tail(rows))

\* the rows a full-structure snapshot (a Project) holds, level by level
SnapshotSheets(project) ==
    Flatten([i \in 1..Len(project.files) |->
        [j \in 1..Len(project.files[i].sheets) |->
            [id |-> project.files[i].sheets[j].id, file_id |-> project.files[i].id,
             name |-> project.files[i].sheets[j].name,
             is_active |-> project.files[i].sheets[j].is_active]]])

SnapshotFields(project) ==
    Flatten(Flatten([i \in 1..Len(project.files) |->
        [j \in 1..Len(project.files[i].sheets) |->
            LET sh == project.files[i].sheets[j]
            IN  [k \in 1..Len(sh.fields) |->
                    [id |-> sh.fields[k].id, sheet_id |-> sh.id, name |-> sh.fields[k].name,
                     is_required |-> sh.fields[k].is_required]]]]))

SnapshotRules(project) ==
    Flatten(Flatten(Flatten([i \in 1..Len(project.files) |->
        [j \in 1..Len(project.files[i].sheets) |->
            LET sh == project.files[i].sheets[j]
            IN  [k \in 1..Len(sh.fields) |->
                    LET f == sh.fields[k]
                    IN  [m \in 1..Len(f.rules) |->
                            [id |-> f.rules[m].id, field_id |-> f.id,
                             rule_type |-> f.rules[m].type,
                             group_id |-> f.rules[m].group_id,
                             params |-> f.rules[m].params,
                             order_num |-> f.rules[m].order]]]]])))

\* _update_project_in_db: the upsert of a full-structure snapshot, one
\* transaction on the per-project store
_update_project_in_db(st, project_update) ==
    [st EXCEPT !.sheets = UpsertSheets(@, SnapshotSheets(project_update)),
               !.fields = UpsertRows(@, SnapshotFields(project_update)),
               !.rules  = UpsertRows(@, SnapshotRules(project_update))]

\* the request body is parsed into a Project before the handler runs: a rule
\* that the Rule model rejects fails the request (422)
RuleAccepted(r) ==
    Rule(("id" :> r.id) @@ ("type" :> r.type) @@ ("group_id" :> r.group_id)
         @@ ("params" :> r.params) @@ ("order" :> r.order)).raised = ""

BodyAccepted(project_update) ==
    \A i \in 1..Len(project_update.files) :
      \A j \in 1..Len(project_update.files[i].sheets) :
        \A k \in 1..Len(project_update.files[i].sheets[j].fields) :
          \A m \in 1..Len(project_update.files[i].sheets[j].fields[k].rules) :
            RuleAccepted(project_update.files[i].sheets[j].fields[k].rules[m])

\* the one project of the model
ProjectId == "p1"

\* PUT /api/projects/{project_id}: update_full_project.  The update of name,
\* description and updated_at in main.db is outside the per-project store;
\* the project row exists, so the 404 of a missing project does not arise.
\* call.before and call.repeated record the store before the request and
\* whether the request repeats the snapshot that the previous one applied
update_full_project(project_id, project_update) ==
    LET Repeated(body) == /\ call.fn = "update_full_project"
                          /\ call.result = 200
                          /\ call.project_update = body
    IN
    /\ env.updates > 0
    /\ env' = [env EXCEPT !.updates = @ - 1]
    /\ IF ~BodyAccepted(project_update)
       THEN /\ call' = [fn |-> "update_full_project", done |-> TRUE,
                        project_id |-> project_id, project_update |-> project_update,
                        before |-> store, repeated |-> Repeated(project_update),
                        result |-> 422]
            /\ store' = store
       ELSE IF project_id # project_update.id
       THEN /\ call' = [fn |-> "update_full_project", done |-> TRUE,
                        project_id |-> project_id, project_update |-> project_update,
                        before |-> store, repeated |-> Repeated(project_update),
                        result |-> 400]
            /\ store' = store
       ELSE /\ call' = [fn |-> "update_full_project", done |-> TRUE,
                        project_id |-> project_id, project_update |-> project_update,
                        before |-> store, repeated |-> Repeated(project_update),
                        result |-> 200]
            /\ store' = _update_project_in_db(store, project_update)
    /\ UNCHANGED <<imp, VALIDATION_STATUS, tasks, loop, RULE_GROUPS_REGISTRY, svc, resp>>

(***************************************************************************)
(* Run Orchestrator: validate_project_data and _run_validation_async       *)
(* (main.py), for the one project of the model.  A task is a coroutine on  *)
(* the event loop; loop names the task that is running between two awaits. *)
(* A percentage is the exact fraction <<numerator, denominator>>.          *)
(***************************************************************************)
MaxTasks == 2            \* run tasks the model can hold
TaskIds == 1..MaxTasks

Percentage(processed_ops_count, total_operations) ==
    IF total_operations > 0 THEN <<processed_ops_count * 100, total_operations>>
    ELSE <<0, 1>>

\* VALIDATION_STATUS.get(project_id, default): the project has no entry
NoStatus ==
    [present |-> FALSE, is_running |-> FALSE, current_file |-> "", current_sheet |-> "",
     current_field |-> "", current_rule |-> "", processed_rows |-> 0, total_rows |-> 0,
     percentage |-> <<0, 1>>, message |-> "Validation not started."]

initial_status ==
    [present |-> TRUE, is_running |-> TRUE, current_file |-> "", current_sheet |-> "",
     current_field |-> "", current_rule |-> "", processed_rows |-> 0, total_rows |-> 0,
     percentage |-> <<0, 1>>, message |-> "Starting validation..."]

IdleTask ==
    [pc |-> "none", project |-> NoProject, total_operations |-> 0,
     processed_ops_count |-> 0, all_errors |-> << >>, result_id |-> 0,
     items |-> << >>, item |-> 0, column_rules |-> << >>, row_rules |-> << >>,
     ci |-> 0, ri |-> 0]

NoTasks == [t \in TaskIds |-> IdleTask]

\* the rule groups of the model (rule_groups.json as load_rules reads it)
Groups ==
    "grp_1" :> [id |-> "grp_1", name |-> "G", logic |-> "AND",
                rules |-> <<[id |-> "not_empty", params |-> NoParams],
                            [id |-> "is_number", params |-> NoParams]>>]

Truthy(v) == v # None /\ v # ""

\* the first row of a table with the given id, as a sequence of
\* zero or one row (cursor.fetchone())
FetchById(table, id) ==
    LET rows == SelectSeq(table, LAMBDA r : r.id = id)
    IN  IF rows = << >> THEN << >> ELSE <<Head(rows)>>

RECURSIVE SumSeq(_)
SumSeq(ns) == IF ns = << >> THEN 0 ELSE Head(ns) + SumSeq(Tail(ns))

\* a variant of step 1: the inactive sheets are counted too
TotalOperationsAllSheets(st, project) ==
    SumSeq(Flatten([i \in 1..Len(project.files) |->
        [j \in 1..Len(project.files[i].sheets) |->
            LET sh == project.files[i].sheets[j]
                row == FetchById(st.sheets, sh.id)
            IN  IF row = << >> THEN 0
                ELSE row[1].row_count
                     * SumSeq([k \in 1..Len(sh.fields) |-> Len(sh.fields[k].rules)])]]))

\* a variant of step 1: a field is counted once, however many rules it has
TotalOperationsPerField(st, project) ==
    SumSeq(Flatten([i \in 1..Len(project.files) |->
        [j \in 1..Len(project.files[i].sheets) |->
            LET sh == project.files[i].sheets[j]
                row == FetchById(st.sheets, sh.id)
            IN  IF ~sh.is_active \/ row = << >> THEN 0
                ELSE row[1].row_count
                     * SumSeq([k \in 1..Len(sh.fields) |->
                                  IF sh.fields[k].rules = << >> THEN 0 ELSE 1])]]))

\* step 1 of the run: row_count * number of configured rules, over the active
\* sheets that have a sheets row
TotalOperations(st, project) ==
    SumSeq(Flatten([i \in 1..Len(project.files) |->
        [j \in 1..Len(project.files[i].sheets) |->
            LET sh == project.files[i].sheets[j]
                row == FetchById(st.sheets, sh.id)
            IN  IF ~sh.is_active \/ row = << >> THEN 0
                ELSE row[1].row_count
                     * SumSeq([k \in 1..Len(sh.fields) |-> Len(sh.fields[k].rules)])]]))

\* a variant of the loops of step 2: the inactive sheets are not skipped
FieldItemsAllSheets(st, project) ==
    Flatten(Flatten([i \in 1..Len(project.files) |->
        [j \in 1..Len(project.files[i].sheets) |->
            LET sh == project.files[i].sheets[j]
                row == FetchById(st.sheets, sh.id)
            IN  IF row = << >> THEN << >>
                ELSE IF ~Truthy(row[1].data_table_name) THEN << >>
                ELSE [k \in 1..Len(sh.fields) |->
                         [file |-> i, sheet |-> j, field |-> k,
                          table_name |-> row[1].data_table_name]]]]))

\* the fields the loops of step 2 reach, in order: the fields of the active
\* sheets that have a data table
FieldItems(st, project) ==
    Flatten(Flatten([i \in 1..Len(project.files) |->
        [j \in 1..Len(project.files[i].sheets) |->
            LET sh == project.files[i].sheets[j]
                row == FetchById(st.sheets, sh.id)
            IN  IF ~sh.is_active THEN << >>
                ELSE IF row = << >> THEN << >>
                ELSE IF ~Truthy(row[1].data_table_name) THEN << >>
                ELSE [k \in 1..Len(sh.fields) |->
                         [file |-> i, sheet |-> j, field |-> k,
                          table_name |-> row[1].data_table_name]]]]))

\* str(value) if pd.notna(value) else the placeholder for an empty value
ErrorValue(value) == IF IsNa(value) THEN "EMPTY" ELSE value

\* one row-wise rule on one value: whether the operation is counted, the rule
\* name, the verdict and the details.  An exception of the validator is caught
\* per rule: no error is recorded and the operation is counted.
RowRuleOutcome(rule_config, value, groups) ==
    IF Truthy(rule_config.group_id)
    THEN IF rule_config.group_id \in DOMAIN groups
         THEN LET group == groups[rule_config.group_id]
                  result == _validate_group(value, group)
              IN  [counted |-> TRUE, rule_name |-> "Group: " \o group.name,
                   is_valid |-> result.is_valid, details |-> result.errors]
         ELSE [counted |-> TRUE, rule_name |-> "Unknown rule", is_valid |-> TRUE,
               details |-> None]
    ELSE IF Truthy(rule_config.type)
    THEN IF rule_config.type \in RegisteredIds
         THEN LET res == Validator2(rule_config.type, value, rule_config.params)
              IN  [counted |-> TRUE, rule_name |-> RULE_REGISTRY[rule_config.type].name,
                   is_valid |-> IF res.kind = "raise" THEN TRUE ELSE CoerceIsValid(res),
                   details |-> None]
         ELSE [counted |-> TRUE, rule_name |-> "Unknown rule", is_valid |-> TRUE,
               details |-> None]
    ELSE [counted |-> FALSE, rule_name |-> "Unknown rule", is_valid |-> TRUE,
          details |-> None]

\* the errors the row-wise rules record for one row, in rule order
RECURSIVE RowErrors(_, _, _, _, _)
RowErrors(row_rules, row_id, value, groups, ctx) ==
    IF row_rules = << >> THEN << >>
    ELSE LET o == RowRuleOutcome(Head(row_rules), value, groups)
             rest == RowErrors(Tail(row_rules), row_id, value, groups, ctx)
         IN  IF o.is_valid THEN rest
             ELSE <<[file_name |-> ctx.file_name, sheet_name |-> ctx.sheet_name,
                     field_name |-> ctx.field_name, is_required |-> ctx.is_required,
                     row |-> row_id, error_type |-> o.rule_name,
                     value |-> ErrorValue(value), details |-> o.details]>> \o rest

\* a variant of the count: a check whose validator raised is not counted
RowCountedUnlessRaised(row_rules, value, groups) ==
    Len(SelectSeq(row_rules,
                  LAMBDA rc : /\ RowRuleOutcome(rc, value, groups).counted
                              /\ ~(/\ ~Truthy(rc.group_id) /\ Truthy(rc.type)
                                    /\ rc.type \in RegisteredIds
                                    /\ Validator2(rc.type, value, rc.params).kind = "raise")))

\* the operations the row-wise rules count for one row
RowCounted(row_rules, value, groups) ==
    Len(SelectSeq(row_rules, LAMBDA rc : RowRuleOutcome(rc, value, groups).counted))

\* a column-access rule on the loaded column: the registered validator is the
\* plugin's validate; a verdict that is a Python bool makes ~verdict an int
\* (-1 or -2), column_series[int] is a label lookup on the _row_id index and
\* raises KeyError, which is caught per rule
ColumnRuleErrors(rule_config, column, ctx) ==
    LET res == Validator2(rule_config.type, column, rule_config.params)
        label == IF CoerceIsValid(res) THEN 0 - 2 ELSE 0 - 1
    IN  IF res.kind = "raise" THEN << >>                       \* the validator raised
        ELSE IF \E k \in 1..Len(column.index) : column.index[k] = label
        THEN << >>                  \* a cell text has no .items(): AttributeError
        ELSE << >>                  \* KeyError

\* the task after the last rule of its field: the next field, or step 3
AfterField(tk) ==
    IF tk.item < Len(tk.items)
    THEN [tk EXCEPT !.pc = "field", !.item = @ + 1, !.column_rules = << >>,
                    !.row_rules = << >>, !.ci = 0, !.ri = 0]
    ELSE [tk EXCEPT !.pc = "persist", !.column_rules = << >>, !.row_rules = << >>,
                    !.ci = 0, !.ri = 0]

\* the data table of an item, or an empty table when it does not exist
ItemTable(st, it) ==
    IF it.table_name \in DOMAIN st.tables THEN st.tables[it.table_name]
    ELSE [columns |-> << >>, rows |-> << >>]

ItemCtx(tk) ==
    LET it == tk.items[tk.item]
        file_schema == tk.project.files[it.file]
        sheet_schema == file_schema.sheets[it.sheet]
        field_schema == sheet_schema.fields[it.field]
    IN  [file_name |-> file_schema.name, sheet_name |-> sheet_schema.name,
         field_name |-> field_schema.name, is_required |-> field_schema.is_required,
         rules |-> field_schema.rules,
         normalized_col_name |-> normalize_name_for_sqlite(field_schema.name)]

\* SELECT _row_id, "<col>" FROM "<table>" ORDER BY _row_id, as a Series
LoadColumn(table, normalized_col_name) ==
    LET c == CHOOSE i \in 1..Len(table.columns) : table.columns[i] = normalized_col_name
    IN  [index |-> [r \in 1..Len(table.rows) |-> table.rows[r]._row_id],
         values |-> [r \in 1..Len(table.rows) |-> table.rows[r].cells[c]]]

\* POST /api/projects/{id}/validate: the status record is overwritten and a
\* run task is created, whatever the record held
validate_project_data ==
    /\ loop = 0
    /\ env.starts > 0
    /\ \E t \in TaskIds :
          /\ tasks[t].pc = "none"
          /\ \A u \in 1..(t - 1) : tasks[u].pc # "none"
          /\ tasks' = [tasks EXCEPT ![t] = [IdleTask EXCEPT !.pc = "created"]]
    /\ VALIDATION_STATUS' = initial_status
    /\ env' = [env EXCEPT !.starts = @ - 1]
    /\ UNCHANGED <<call, store, imp, loop, RULE_GROUPS_REGISTRY, svc, resp>>

\* await asyncio.to_thread(_build_project_model_from_db): the worker thread
\* reads the store
RunBuild(t) ==
    /\ tasks[t].pc = "created"
    /\ tasks' = [tasks EXCEPT ![t].pc = "built",
                              ![t].project = _build_project_model_from_db(store)]
    /\ UNCHANGED <<call, store, imp, VALIDATION_STATUS, loop, RULE_GROUPS_REGISTRY,
                   svc, env, resp>>

\* the task resumes: step 1 (total_operations), the status update, and the
\* result row of step 2 (INSERT ... DEFAULT VALUES; commit).  From here to
\* its end the task does not await: it holds the event loop.
RunPrepare(t) ==
    /\ tasks[t].pc = "built"
    /\ loop = 0
    /\ IF ~tasks[t].project.found
       THEN /\ VALIDATION_STATUS' = [VALIDATION_STATUS EXCEPT
                                       !.is_running = FALSE,
                                       !.message = "Error: project not found."]
            /\ tasks' = [tasks EXCEPT ![t].pc = "failed"]
            /\ UNCHANGED <<store, loop>>
       ELSE \E outcome \in {"ok", "step1_unopened", "step1_error", "step2_unopened"} :
            LET project == tasks[t].project
                total_operations == TotalOperations(store, project)
                result_id == Len(store.validation_results) + 1
                items == FieldItems(store, project)
            IN  CASE outcome = "step1_unopened" ->
                       \* get_project_db_connection returned None: "with None"
                       \* raises an exception that is not sqlite3.Error, the
                       \* coroutine ends with it and the status is not written
                       /\ tasks' = [tasks EXCEPT ![t].pc = "crashed"]
                       /\ UNCHANGED <<VALIDATION_STATUS, store, loop>>
                  [] outcome = "step1_error" ->
                       \* sqlite3.Error in step 1
                       /\ VALIDATION_STATUS' = [VALIDATION_STATUS EXCEPT
                              !.is_running = FALSE,
                              !.message = "Error: the workload could not be computed."]
                       /\ tasks' = [tasks EXCEPT ![t].pc = "failed"]
                       /\ UNCHANGED <<store, loop>>
                  [] outcome = "step2_unopened" ->
                       \* the connection of step 2 is None: caught by the outer
                       \* handler of step 2
                       /\ VALIDATION_STATUS' = [VALIDATION_STATUS EXCEPT
                              !.total_rows = total_operations,
                              !.is_running = FALSE,
                              !.message = "Critical error during validation."]
                       /\ tasks' = [tasks EXCEPT ![t].pc = "failed",
                                                 ![t].total_operations = total_operations]
                       /\ UNCHANGED <<store, loop>>
                  [] OTHER ->
                       /\ VALIDATION_STATUS' = [VALIDATION_STATUS EXCEPT
                                                  !.total_rows = total_operations,
                                                  !.message = "Checking files..."]
                       /\ store' = [store EXCEPT !.validation_results =
                                       Append(@, [id |-> result_id, validated_at |-> env.now,
                                                  total_rows |-> 0, error_rows |-> 0])]
                       /\ tasks' = [tasks EXCEPT ![t] =
                              [@ EXCEPT !.pc = IF items = << >> THEN "persist" ELSE "field",
                                        !.total_operations = total_operations,
                                        !.result_id = result_id,
                                        !.items = items,
                                        !.item = IF items = << >> THEN 0 ELSE 1]]
                       /\ loop' = t
    /\ UNCHANGED <<call, imp, RULE_GROUPS_REGISTRY, svc, env, resp>>

\* one pass of the loop over sheet_schema.fields up to the rule loops: the
\* column check (PRAGMA table_info) and the split of the rules by mode
RunField(t) ==
    /\ tasks[t].pc = "field"
    /\ loop = t
    /\ LET tk == tasks[t]
           ctx == ItemCtx(tk)
           table == ItemTable(store, tk.items[tk.item])
           sorted == SortByOrder(ctx.rules)
           IsColumnRule(rc) ==
               IF Truthy(rc.type) /\ rc.type \in RegisteredIds
               THEN RULE_REGISTRY[rc.type].needs_column_access ELSE FALSE
           column_rules == SelectSeq(sorted, IsColumnRule)
           row_rules == SelectSeq(sorted, LAMBDA rc : ~IsColumnRule(rc))
       IN  /\ VALIDATION_STATUS' = [VALIDATION_STATUS EXCEPT
                                      !.current_file = ctx.file_name,
                                      !.current_sheet = ctx.sheet_name,
                                      !.current_field = ctx.field_name]
           /\ tasks' = [tasks EXCEPT ![t] =
                 IF ctx.normalized_col_name \notin SeqToSet(table.columns)
                 THEN AfterField(tk)
                 ELSE IF column_rules # << >>
                 THEN [tk EXCEPT !.pc = "column", !.column_rules = column_rules,
                                 !.row_rules = row_rules, !.ci = 1]
                 ELSE IF row_rules # << >> /\ table.rows # << >>
                 THEN [tk EXCEPT !.pc = "row", !.row_rules = row_rules, !.ri = 1]
                 ELSE AfterField(tk)]
    /\ UNCHANGED <<call, store, imp, loop, RULE_GROUPS_REGISTRY, svc, env, resp>>

\* step 2.1, one pass of the loop over column_rules on the loaded column
RunColumnRule(t) ==
    /\ tasks[t].pc = "column"
    /\ loop = t
    /\ LET tk == tasks[t]
           ctx == ItemCtx(tk)
           table == ItemTable(store, tk.items[tk.item])
           column_series == LoadColumn(table, ctx.normalized_col_name)
           rule_config == tk.column_rules[tk.ci]
           errors == ColumnRuleErrors(rule_config, column_series, ctx)
           processed_ops_count == tk.processed_ops_count + Len(column_series.values)
           counted == [tk EXCEPT !.processed_ops_count = processed_ops_count,
                                 !.all_errors = @ \o errors]
       IN  /\ VALIDATION_STATUS' = [VALIDATION_STATUS EXCEPT
                  !.current_rule = RULE_REGISTRY[rule_config.type].name,
                  !.processed_rows = processed_ops_count,
                  !.percentage = Percentage(processed_ops_count, tk.total_operations)]
           /\ tasks' = [tasks EXCEPT ![t] =
                 IF tk.ci < Len(tk.column_rules)
                 THEN [counted EXCEPT !.ci = @ + 1]
                 ELSE IF tk.row_rules # << >> /\ table.rows # << >>
                 THEN [counted EXCEPT !.pc = "row", !.ri = 1]
                 ELSE AfterField(counted)]
    /\ UNCHANGED <<call, store, imp, loop, RULE_GROUPS_REGISTRY, svc, env, resp>>

\* step 2.2, one row of the chunk: every row-wise rule on the row's value,
\* then the status update
RunRow(t) ==
    /\ tasks[t].pc = "row"
    /\ loop = t
    /\ LET tk == tasks[t]
           ctx == ItemCtx(tk)
           table == ItemTable(store, tk.items[tk.item])
           column == LoadColumn(table, ctx.normalized_col_name)
           row_id == column.index[tk.ri]
           value == column.values[tk.ri]
           errors == RowErrors(tk.row_rules, row_id, value, RULE_GROUPS_REGISTRY, ctx)
           processed_ops_count ==
               tk.processed_ops_count + RowCounted(tk.row_rules, value, RULE_GROUPS_REGISTRY)
           rule_name ==
               RowRuleOutcome(tk.row_rules[Len(tk.row_rules)], value,
                              RULE_GROUPS_REGISTRY).rule_name
           counted == [tk EXCEPT !.processed_ops_count = processed_ops_count,
                                 !.all_errors = @ \o errors]
       IN  /\ VALIDATION_STATUS' = [VALIDATION_STATUS EXCEPT
                  !.processed_rows = processed_ops_count,
                  !.current_rule = rule_name,
                  !.percentage = Percentage(processed_ops_count, tk.total_operations)]
           /\ tasks' = [tasks EXCEPT ![t] =
                 IF tk.ri < Len(table.rows)
                 THEN [counted EXCEPT !.ri = @ + 1]
                 ELSE AfterField(counted)]
    /\ UNCHANGED <<call, store, imp, loop, RULE_GROUPS_REGISTRY, svc, env, resp>>

\* f"{file_name}-{sheet_name}-{row}"
ErrorRowKey(file_name, sheet_name, row) ==
    file_name \o "-" \o sheet_name \o "-" \o ToString(row)

\* step 3 and the end of the run: the errors are inserted, the result row is
\* updated, the connection commits, and the final status is written.  A
\* write or the commit may raise sqlite3.Error (raised): the connection rolls
\* back what is not committed and the outer handler writes the error status.
RunPersist(t) ==
    /\ tasks[t].pc = "persist"
    /\ loop = t
    /\ \E raised \in BOOLEAN :
       IF raised
       THEN /\ store' = store
            /\ VALIDATION_STATUS' = [VALIDATION_STATUS EXCEPT
                                       !.is_running = FALSE,
                                       !.message = "Critical error during validation."]
            /\ tasks' = [tasks EXCEPT ![t].pc = "failed"]
       ELSE
       LET tk == tasks[t]
           error_tuples ==
               [k \in 1..Len(tk.all_errors) |->
                   LET e == tk.all_errors[k]
                   IN  [result_id |-> tk.result_id, file_name |-> e.file_name,
                        sheet_name |-> e.sheet_name, field_name |-> e.field_name,
                        row_number |-> e.row, error_type |-> e.error_type,
                        value |-> e.value, details |-> e.details,
                        is_required |-> e.is_required]]
           required_field_errors == SelectSeq(tk.all_errors, LAMBDA e : e.is_required)
           unique_error_row_keys ==
               {ErrorRowKey(e.file_name, e.sheet_name, e.row) :
                    e \in SeqToSet(required_field_errors)}
       IN
         /\ store' = [store EXCEPT
                       !.validation_errors = @ \o error_tuples,
                       !.validation_results =
                           [k \in 1..Len(@) |->
                               IF @[k].id = tk.result_id
                               THEN [@[k] EXCEPT !.total_rows = tk.total_operations,
                                                 !.error_rows =
                                                     Cardinality(unique_error_row_keys)]
                               ELSE @[k]]]
         /\ VALIDATION_STATUS' = [VALIDATION_STATUS EXCEPT
                                    !.is_running = FALSE,
                                    !.message = "Validation finished.",
                                    !.percentage = <<100, 1>>]
         /\ tasks' = [tasks EXCEPT ![t].pc = "done"]
    /\ loop' = 0
    /\ UNCHANGED <<call, imp, RULE_GROUPS_REGISTRY, svc, env, resp>>

NoResp == [status_code |-> 0]

\* sorted(list(all_applicable_rule_names)): the display names in string order
RuleNameOrder ==
    <<"Group: G", "No leading/trailing spaces", "Not empty", "Unique value",
      "Value must be a number">>

\* round((count / total) * 100, 2) if total > 0 else 0, in hundredths
RoundedPercentage(count, total) ==
    IF total > 0 THEN (2 * 10000 * count + total) \div (2 * total) ELSE 0

\* the names of the rules configured on a sheet that the registries know
ApplicableRuleNames(sheet_schema, groups) ==
    UNION {{IF Truthy(r_conf.type) /\ r_conf.type \in RegisteredIds
            THEN RULE_REGISTRY[r_conf.type].name
            ELSE "Group: " \o groups[r_conf.group_id].name :
              r_conf \in {r \in SeqToSet(sheet_schema.fields[k].rules) :
                             \/ Truthy(r.type) /\ r.type \in RegisteredIds
                             \/ Truthy(r.group_id) /\ r.group_id \in DOMAIN groups}} :
           k \in 1..Len(sheet_schema.fields)}

\* the per-file, per-sheet, per-rule breakdown of the report
FileResults(st, project, all_errors, groups) ==
    LET SheetSummary(file_schema, sheet_schema) ==
            LET sheet_info == FetchById(st.sheets, sheet_schema.id)
                sheet_total_rows == IF sheet_info = << >> THEN 0 ELSE sheet_info[1].row_count
                sheet_errors ==
                    SelectSeq(all_errors,
                              LAMBDA e : /\ e.file_name = file_schema.name
                                         /\ e.sheet_name = sheet_schema.name)
                names == ApplicableRuleNames(sheet_schema, groups)
                sheet_error_row_keys == {e.row_number : e \in SeqToSet(sheet_errors)}
                summary_list ==
                    [n \in 1..Cardinality(names) |->
                        LET rule_name ==
                                SelectSeq(RuleNameOrder, LAMBDA x : x \in names)[n]
                            rule_errors ==
                                SelectSeq(sheet_errors, LAMBDA e : e.error_type = rule_name)
                        IN  [rule_name |-> rule_name, error_count |-> Len(rule_errors),
                             error_percentage |->
                                 RoundedPercentage(Len(rule_errors), sheet_total_rows),
                             detailed_errors |-> rule_errors]]
            IN  [sheet_name |-> sheet_schema.name, total_rows |-> sheet_total_rows,
                 sheet_error_rows_count |-> Cardinality(sheet_error_row_keys),
                 sheet_error_percentage |->
                     RoundedPercentage(Cardinality(sheet_error_row_keys), sheet_total_rows),
                 rule_summaries |-> summary_list]
        FileSummary(file_schema) ==
            LET active == SelectSeq(file_schema.sheets, LAMBDA sh : sh.is_active)
            IN  [file_name |-> file_schema.name,
                 sheets |-> [j \in 1..Len(active) |-> SheetSummary(file_schema, active[j])]]
    IN  SelectSeq([i \in 1..Len(project.files) |-> FileSummary(project.files[i])],
                  LAMBDA f : f.sheets # << >>)

\* GET /api/projects/{id}/results: the latest result (ORDER BY validated_at
\* DESC LIMIT 1; any of the rows that share the latest timestamp), its
\* errors, and the totals computed from them; the per-sheet breakdown
\* (file_results) is not part of the response record
get_validation_results ==
    /\ loop = 0
    /\ env.results > 0
    /\ env' = [env EXCEPT !.results = @ - 1]
    /\ IF store.validation_results = << >>
       THEN resp' = [status_code |-> 404]
       ELSE \E last_result \in SeqToSet(store.validation_results) :
              /\ \A r \in SeqToSet(store.validation_results) :
                     r.validated_at <= last_result.validated_at
              /\ LET all_errors == SelectSeq(store.validation_errors,
                                             LAMBDA e : e.result_id = last_result.id)
                     project == _build_project_model_from_db(store)
                     required_field_errors == SelectSeq(all_errors, LAMBDA e : e.is_required)
                     unique_error_row_keys ==
                         {ErrorRowKey(e.file_name, e.sheet_name, e.row_number) :
                              e \in SeqToSet(required_field_errors)}
                 IN  IF ~project.found
                     THEN resp' = [status_code |-> 404]
                     ELSE resp' = [status_code |-> 200,
                                   result_id |-> last_result.id,
                                   total_processed_rows |-> last_result.total_rows,
                                   required_field_error_rows_count |->
                                       Cardinality(unique_error_row_keys),
                                   required_field_errors |-> required_field_errors,
                                   file_results |->
                                       FileResults(store, project, all_errors,
                                                   RULE_GROUPS_REGISTRY),
                                   validated_at |-> last_result.validated_at]
    /\ UNCHANGED <<call, store, imp, VALIDATION_STATUS, tasks, loop,
                   RULE_GROUPS_REGISTRY, svc>>

\* GET /api/projects/{id}/validation-status: a coroutine of the event loop,
\* served when no task holds the loop; it answers with the status record
get_validation_status ==
    /\ loop = 0
    /\ env.polls > 0
    /\ env' = [env EXCEPT !.polls = @ - 1]
    /\ call' = [fn |-> "get_validation_status", done |-> TRUE,
                result |-> VALIDATION_STATUS]
    /\ UNCHANGED <<store, imp, VALIDATION_STATUS, tasks, loop, RULE_GROUPS_REGISTRY,
                   svc, resp>>

\* a variant of the handler: the rules that reference the group are deleted
\* with it
delete_rule_group_cascade(group_id) ==
    /\ loop = 0
    /\ env.group_deletes > 0
    /\ env' = [env EXCEPT !.group_deletes = @ - 1]
    /\ group_id \in DOMAIN RULE_GROUPS_REGISTRY
    /\ RULE_GROUPS_REGISTRY' =
           [g \in DOMAIN RULE_GROUPS_REGISTRY \ {group_id} |-> RULE_GROUPS_REGISTRY[g]]
    /\ store' = [store EXCEPT !.rules = SelectSeq(@, LAMBDA r : r.group_id # group_id)]
    /\ call' = [fn |-> "delete_rule_group", done |-> TRUE, result |-> 204]
    /\ UNCHANGED <<imp, VALIDATION_STATUS, tasks, loop, svc, resp>>

\* DELETE /api/rule-groups/{group_id}: 404 for an unknown id, else the group
\* leaves the registry (write_rule_groups rewrites the registry file from it)
delete_rule_group(group_id) ==
    /\ loop = 0
    /\ env.group_deletes > 0
    /\ env' = [env EXCEPT !.group_deletes = @ - 1]
    /\ IF group_id \notin DOMAIN RULE_GROUPS_REGISTRY
       THEN /\ call' = [fn |-> "delete_rule_group", done |-> TRUE, result |-> 404]
            /\ UNCHANGED RULE_GROUPS_REGISTRY
       ELSE /\ call' = [fn |-> "delete_rule_group", done |-> TRUE, result |-> 204]
            /\ RULE_GROUPS_REGISTRY' =
                   [g \in DOMAIN RULE_GROUPS_REGISTRY \ {group_id} |->
                       RULE_GROUPS_REGISTRY[g]]
    /\ UNCHANGED <<store, imp, VALIDATION_STATUS, tasks, loop, svc, resp>>

(***************************************************************************)
(* The dqmaster service: POST /projects/{id}/validate (api/validation.py), *)
(* ValidationService.start_validation and ._run_validation_async, and the  *)
(* StatusStorage record of the project.  The service runs on its own event *)
(* loop; a step is the code between two suspensions of a task (an          *)
(* uncontended StatusStorage lock does not suspend).  A chain is the       *)
(* start task and the run task that one request leads to.                  *)
(***************************************************************************)
NominalTotal == 100      \* _calculate_total_operations: the substitute for a total <= 0
BatchSize == 100         \* the step of the progress loop

\* StorageValidationStatus(...): the fields not given take their defaults
StorageValidationStatus(is_running, processed_rows, total_rows, percentage, message) ==
    [present |-> TRUE, is_running |-> is_running, current_file |-> "",
     current_sheet |-> "", current_field |-> "", current_rule |-> "",
     processed_rows |-> processed_rows, total_rows |-> total_rows,
     percentage |-> percentage, message |-> message]

\* StatusStorage.get_status of a project without a record: ValidationStatus()
DefaultStatus == [NoStatus EXCEPT !.message = ""]

IdleChain == [pc |-> "none", total_operations |-> 0, processed_ops_count |-> 0]

IdleSvc ==
    [status |-> DefaultStatus,
     chains |-> [c \in TaskIds |-> IdleChain],
     results_file |-> None,
     response |-> 0]

Min(a, b) == IF a < b THEN a ELSE b

\* min(99.0, (processed_ops_count / total_operations) * 100)
CappedPercentage(processed_ops_count, total_operations) ==
    IF processed_ops_count * 100 > 99 * total_operations THEN <<99, 1>>
    ELSE <<processed_ops_count * 100, total_operations>>

ProgressMessage(processed_ops_count, total_operations) ==
    "Processed " \o ToString(processed_ops_count) \o " of "
        \o ToString(total_operations) \o " operations"

\* the handler: the project is read, the status is checked, the start task
\* is created and "started" is returned
SvcValidateProjectData ==
    /\ env.svc_starts > 0
    /\ env' = [env EXCEPT !.svc_starts = @ - 1]
    /\ IF svc.status.is_running
       THEN svc' = [svc EXCEPT !.response = 400]
       ELSE \E c \in TaskIds :
              /\ svc.chains[c].pc = "none"
              /\ \A u \in 1..(c - 1) : svc.chains[u].pc # "none"
              /\ svc' = [svc EXCEPT !.response = 200,
                                    !.chains[c] = [IdleChain EXCEPT !.pc = "start"]]
    /\ UNCHANGED <<call, store, imp, VALIDATION_STATUS, tasks, loop,
                   RULE_GROUPS_REGISTRY, resp>>

\* the start task: is_running is checked again, then the run task is created
start_validation(c) ==
    /\ svc.chains[c].pc = "start"
    /\ svc' = [svc EXCEPT !.chains[c].pc =
                  IF svc.status.is_running THEN "start_raised" ELSE "run"]
    /\ UNCHANGED <<call, store, imp, VALIDATION_STATUS, tasks, loop,
                   RULE_GROUPS_REGISTRY, env, resp>>

\* the run task up to its first suspension (run_in_executor in
\* _calculate_total_operations): the Running status is stored
SvcRunBegin(c) ==
    /\ svc.chains[c].pc = "run"
    /\ svc' = [svc EXCEPT
                 !.status = StorageValidationStatus(TRUE, 0, 0, <<0, 1>>,
                                                    "Preparing validation..."),
                 !.chains[c].pc = "calc"]
    /\ UNCHANGED <<call, store, imp, VALIDATION_STATUS, tasks, loop,
                   RULE_GROUPS_REGISTRY, env, resp>>

\* one pass of the progress loop up to await asyncio.sleep
SvcBatch(chain) ==
    LET processed_ops_count ==
            chain.processed_ops_count
              + Min(BatchSize, chain.total_operations - chain.processed_ops_count)
    IN  [status |-> StorageValidationStatus(
                        TRUE, processed_ops_count, 0,
                        CappedPercentage(processed_ops_count, chain.total_operations),
                        ProgressMessage(processed_ops_count, chain.total_operations)),
         chain |-> [chain EXCEPT !.pc = "sleep",
                                 !.processed_ops_count = processed_ops_count]]

\* the total is computed (row_count * rule_count over the active sheets, or
\* the nominal total), the status with percentage 1.0 is stored, and the
\* first pass of the loop overwrites it before the task suspends
SvcRunCalc(c) ==
    /\ svc.chains[c].pc = "calc"
    /\ LET total_ops == env.svc_workload
           total_operations == IF total_ops <= 0 THEN NominalTotal ELSE total_ops
           b == SvcBatch([svc.chains[c] EXCEPT !.total_operations = total_operations])
       IN  svc' = [svc EXCEPT !.status = b.status, !.chains[c] = b.chain]
    /\ UNCHANGED <<call, store, imp, VALIDATION_STATUS, tasks, loop,
                   RULE_GROUPS_REGISTRY, env, resp>>

\* after the sleep: the next pass of the loop, or the end of the run (the
\* result file is written and the final status stored)
SvcRunLoop(c) ==
    /\ svc.chains[c].pc = "sleep"
    /\ LET chain == svc.chains[c]
       IN  IF chain.processed_ops_count < chain.total_operations
           THEN svc' = [svc EXCEPT !.status = SvcBatch(chain).status,
                                   !.chains[c] = SvcBatch(chain).chain]
           ELSE svc' = [svc EXCEPT
                          !.results_file = chain.total_operations,
                          !.status = StorageValidationStatus(
                                         FALSE, chain.total_operations, 0, <<100, 1>>,
                                         "Validation finished."),
                          !.chains[c].pc = "done"]
    /\ UNCHANGED <<call, store, imp, VALIDATION_STATUS, tasks, loop,
                   RULE_GROUPS_REGISTRY, env, resp>>

\* GET /projects/{id}/validation-status of the service: the stored record, or
\* the default record when none is stored
SvcGetValidationStatus ==
    /\ env.polls > 0
    /\ env' = [env EXCEPT !.polls = @ - 1]
    /\ call' = [fn |-> "ValidationService.get_validation_status", done |-> TRUE,
                result |-> svc.status]
    /\ UNCHANGED <<store, imp, VALIDATION_STATUS, tasks, loop, RULE_GROUPS_REGISTRY,
                   svc, resp>>

(***************************************************************************)
(* SpecImport: one upload against an empty store or a store that holds a  *)
(* file.                                                                   *)
(***************************************************************************)
\* the workbooks of the model: sheets with distinct names; a sheet has no
\* column (an empty sheet), one column, two columns, or two columns whose
\* names normalize to the same name; all cells of a sheet hold one value
SheetNames == {"S1", "S2"}
ImportCells == {Blank, "a"}
ColumnSets == {<< >>, <<"A">>, <<"A", "B">>, <<"A", "a">>}

SheetsNamed(name) ==
    {[name |-> name, columns |-> cols,
      rows |-> [r \in 1..n |-> [i \in 1..Len(cols) |-> c]]] :
        cols \in ColumnSets \ {<< >>}, n \in 0..MaxRows, c \in ImportCells}
    \cup {[name |-> name, columns |-> << >>, rows |-> << >>]}

Workbooks ==
    {[readable |-> FALSE, sheets |-> << >>]} \cup
    {[readable |-> TRUE, sheets |-> <<sh>>] : sh \in UNION {SheetsNamed(n) : n \in SheetNames}}
    \cup
    {[readable |-> TRUE, sheets |-> <<s1, s2>>] :
        s1 \in SheetsNamed("S1"), s2 \in SheetsNamed("S2")}
    \cup
    {[readable |-> TRUE, sheets |-> <<s2, s1>>] :
        s1 \in SheetsNamed("S1"), s2 \in SheetsNamed("S2")}

IdleEnv ==
    [uploads |-> 0, starts |-> 0, svc_starts |-> 0, svc_workload |-> 0, results |-> 0,
     updates |-> 0, polls |-> 0, group_deletes |-> 0, now |-> 0]

\* a store that already holds one imported file
OneFileStore ==
    Imported(EmptyStore, "w.xls",
             [readable |-> TRUE,
              sheets |-> <<[name |-> "S", columns |-> <<"A">>, rows |-> <<<<"a">>>>]>>], 0)

InitImport ==
    /\ call = NoCall
    /\ \/ store = EmptyStore /\ imp = IdleImport
       \/ store = OneFileStore /\ imp = [pc |-> "idle", uuid |-> 3]
    /\ VALIDATION_STATUS = NoStatus
    /\ tasks = NoTasks
    /\ loop = 0
    /\ RULE_GROUPS_REGISTRY = Groups
    /\ svc = IdleSvc
    /\ env = [IdleEnv EXCEPT !.uploads = 1]
    /\ resp = NoResp

NextImport ==
    \/ \E wb \in Workbooks : UploadBegin("u.xlsx", wb)
    \/ ImportSheetStep
    \/ ImportFinish

SpecImport == InitImport /\ [][NextImport]_vars

\* C4: the import of one upload is atomic: when it has failed, the store
\* holds exactly what it held before the upload (no File, Sheet or Field row
\* and no data table of that upload).
C4_ImportAtomic ==
    imp.pc = "failed" => store = imp.before

\* C12: after a successful import every sheet of the workbook has a Sheet
\* row whose row_count is the sheet's number of data rows, its data table
\* holds exactly that many rows, and the re-read project structure has, for
\* that sheet, exactly one Field per source column.
C12_ImportRoundTrip ==
    imp.pc = "done" =>
        LET project == _build_project_model_from_db(store)
            created == SelectSeq(store.sheets, LAMBDA r : r.file_id = imp.file_id)
        IN  /\ project.found
            /\ Len(created) = Len(imp.workbook.sheets)
            /\ \A k \in 1..Len(created) :
                  LET src == imp.workbook.sheets[k]
                      row == created[k]
                  IN  /\ row.name = src.name
                      /\ row.row_count = Len(src.rows)
                      /\ row.data_table_name \in DOMAIN store.tables
                      /\ Len(store.tables[row.data_table_name].rows) = Len(src.rows)
                      /\ \E i \in 1..Len(project.files) :
                            /\ project.files[i].id = imp.file_id
                            /\ \E j \in 1..Len(project.files[i].sheets) :
                                  LET sh == project.files[i].sheets[j]
                                  IN  /\ sh.id = row.id
                                      /\ Len(sh.fields) = Len(src.columns)
                                      /\ {sh.fields[m].name : m \in 1..Len(sh.fields)}
                                             = SeqToSet(src.columns)
                                      /\ {normalize_name_for_sqlite(sh.fields[m].name) :
                                              m \in 1..Len(sh.fields)}
                                             = SeqToSet(store.tables[row.data_table_name].columns)

\* a workbook of two sheets, one of them with two columns and two rows or
\* more, has been imported
C12_Witness ==
    /\ imp.pc = "done"
    /\ Len(imp.workbook.sheets) = 2
    /\ \E k \in 1..2 : /\ Len(imp.workbook.sheets[k].columns) = 2
                       /\ Len(imp.workbook.sheets[k].rows) >= 2
    /\ Len(store.files) = 2

(***************************************************************************)
(* SpecRun: one validation run over a configured project.  The store is    *)
(* what the uploads and a structure update (PUT of a snapshot) leave.      *)
(***************************************************************************)
\* the rule configurations a snapshot can give a field: row-wise plugins, the
\* column-access plugin, a group, an unregistered type, an empty type
RuleChoices ==
    {[type |-> "not_empty", group_id |-> None],
     [type |-> "is_number", group_id |-> None],
     [type |-> "unique_value", group_id |-> None],
     [type |-> None, group_id |-> "grp_1"],
     [type |-> "no_such_rule", group_id |-> None],
     [type |-> "", group_id |-> None]}

\* what a snapshot sets on the one sheet and field of a file
FieldConfigs ==
    {[is_active |-> TRUE, field_name |-> "A", is_required |-> FALSE],
     [is_active |-> TRUE, field_name |-> "A", is_required |-> TRUE],
     [is_active |-> FALSE, field_name |-> "A", is_required |-> FALSE],
     [is_active |-> TRUE, field_name |-> "B", is_required |-> FALSE]}

\* the snapshot that sets cfgs[i] and the rules rules[i] on file i
ConfiguredProject(project, cfgs, rules) ==
    [project EXCEPT !.files =
        [i \in 1..Len(project.files) |->
            [project.files[i] EXCEPT !.sheets =
                [j \in 1..Len(project.files[i].sheets) |->
                    LET sh == project.files[i].sheets[j]
                    IN  [sh EXCEPT
                           !.is_active = cfgs[i].is_active,
                           !.fields =
                               [k \in 1..Len(sh.fields) |->
                                   [sh.fields[k] EXCEPT
                                      !.name = cfgs[i].field_name,
                                      !.is_required = cfgs[i].is_required,
                                      !.rules =
                                          [m \in 1..Len(rules[i]) |->
                                              [id |-> NewId("r_" \o sh.fields[k].id \o "_", m),
                                               type |-> rules[i][m].type,
                                               group_id |-> rules[i][m].group_id,
                                               params |-> NoParams,
                                               order |-> m]]]]]]]]]

OneColumnBook(sheet_name, cells) ==
    [readable |-> TRUE,
     sheets |-> <<[name |-> sheet_name, columns |-> <<"A">>,
                   rows |-> [r \in 1..Len(cells) |-> <<cells[r]>>]]>>]

\* a store after the upload of books[i] under names[i], in order, and the
\* structure update that sets cfgs and rules
ConfiguredStore(names, books, cfgs, rules) ==
    LET RECURSIVE Uploaded(_)
        Uploaded(n) == IF n = 0 THEN EmptyStore
                       ELSE Imported(Uploaded(n - 1), names[n], books[n], 3 * (n - 1))
        st == Uploaded(Len(names))
    IN  _update_project_in_db(st,
            ConfiguredProject(_build_project_model_from_db(st), cfgs, rules))

RunCells == {Blank, "a"}
FileNames == {"w.xls", "w.xls-w.xls"}
RunSheetNames == {"S", "w.xls-S"}

\* the import thread after its last upload
ImportDone(book) ==
    [pc |-> "done", uuid |-> UuidsOf(book), before |-> EmptyStore,
     file_id |-> NewId("f", 1), workbook |-> book]

InitRun ==
    /\ call = NoCall
    /\ \/ \E cells \in SeqsUpTo(RunCells, MaxRows), cfg \in FieldConfigs,
             rs \in SeqsUpTo(RuleChoices, MaxRules) :
               /\ imp = ImportDone(OneColumnBook("S", cells))
               /\ store = ConfiguredStore(<<"w.xls">>, <<OneColumnBook("S", cells)>>,
                                          <<cfg>>, <<rs>>)
       \/ \E n1, n2 \in FileNames, s1, s2 \in RunSheetNames, c1, c2 \in RunCells,
             q1, q2, a1, a2 \in BOOLEAN :
               /\ imp = ImportDone(OneColumnBook(s1, <<c1>>))
               /\ store = ConfiguredStore(
                     <<n1, n2>>,
                     <<OneColumnBook(s1, <<c1>>), OneColumnBook(s2, <<c2>>)>>,
                     <<[is_active |-> a1, field_name |-> "A", is_required |-> q1],
                       [is_active |-> a2, field_name |-> "A", is_required |-> q2]>>,
                     <<<<[type |-> "is_number", group_id |-> None]>>,
                       <<[type |-> "is_number", group_id |-> None]>>>>)
    /\ VALIDATION_STATUS = NoStatus
    /\ tasks = NoTasks
    /\ loop = 0
    /\ RULE_GROUPS_REGISTRY = Groups
    /\ svc = IdleSvc
    /\ env = [IdleEnv EXCEPT !.starts = 1, !.results = 1]
    /\ resp = NoResp

NextRun ==
    \/ validate_project_data
    \/ \E t \in TaskIds : RunBuild(t)
    \/ \E t \in TaskIds : RunPrepare(t)
    \/ \E t \in TaskIds : RunField(t)
    \/ \E t \in TaskIds : RunColumnRule(t)
    \/ \E t \in TaskIds : RunRow(t)
    \/ \E t \in TaskIds : RunPersist(t)
    \/ get_validation_results

SpecRun == InitRun /\ [][NextRun]_vars

\* C2: over one run the published processed-operation count never decreases,
\* and in the step that completes the run successfully it equals the run's
\* total_operations, whatever the project structure is.
C2_ProgressMonotoneExact ==
    [][ /\ VALIDATION_STATUS.is_running =>
               VALIDATION_STATUS'.processed_rows >= VALIDATION_STATUS.processed_rows
        /\ (VALIDATION_STATUS.is_running /\ VALIDATION_STATUS'.message = "Validation finished.")
               => VALIDATION_STATUS'.processed_rows = VALIDATION_STATUS'.total_rows
      ]_vars

\* the errors a finished run recorded on the field of an item under a rule name
ErrorsOn(tk, it, rule_name) ==
    LET file_schema == tk.project.files[it.file]
        sheet_schema == file_schema.sheets[it.sheet]
        field_schema == sheet_schema.fields[it.field]
    IN  SelectSeq(tk.all_errors,
                  LAMBDA e : /\ e.file_name = file_schema.name
                             /\ e.sheet_name = sheet_schema.name
                             /\ e.field_name = field_schema.name
                             /\ e.error_type = rule_name)

RowsOf(errors) == {errors[k].row : k \in 1..Len(errors)}

\* the items of a finished run whose field has a column in the data table
LoadedItems(tk) ==
    {n \in 1..Len(tk.items) :
        normalize_name_for_sqlite(
            tk.project.files[tk.items[n].file].sheets[tk.items[n].sheet]
              .fields[tk.items[n].field].name)
        \in SeqToSet(ItemTable(store, tk.items[n]).columns)}

ItemRules(tk, n) ==
    tk.project.files[tk.items[n].file].sheets[tk.items[n].sheet]
      .fields[tk.items[n].field].rules

ItemColumn(tk, n) ==
    LoadColumn(ItemTable(store, tk.items[n]),
               normalize_name_for_sqlite(
                   tk.project.files[tk.items[n].file].sheets[tk.items[n].sheet]
                     .fields[tk.items[n].field].name))

\* C7: when a run has finished, every field of an active sheet that carries
\* the column-mode uniqueness rule (alone) has exactly one error for each row
\* its column validator flags invalid, carrying that row's identifier, and
\* none for the rows it flags valid.
C7_ColumnRuleErrors ==
    \A t \in TaskIds :
        tasks[t].pc = "done" =>
            \A n \in LoadedItems(tasks[t]) :
                LET rules == ItemRules(tasks[t], n)
                    column == ItemColumn(tasks[t], n)
                    verdict == validate_column(column, NoParams)
                    errors == ErrorsOn(tasks[t], tasks[t].items[n],
                                       RULE_REGISTRY["unique_value"].name)
                IN  (Len(rules) = 1 /\ rules[1].type = "unique_value" /\ verdict.raised = "")
                    => /\ RowsOf(errors) =
                            {column.index[k] : k \in {j \in 1..Len(column.index) :
                                                          ~verdict.is_valid[j]}}
                       /\ Len(errors) = Cardinality(RowsOf(errors))

\* C9: when a run has finished on a project with one active sheet and one
\* field that carries the single rule "not empty", the run has exactly one
\* error for each row whose cell was blank in the uploaded sheet and none for
\* any other row.
C9_NotEmptyEndToEnd ==
    \A t \in TaskIds :
        (/\ tasks[t].pc = "done"
         /\ Len(tasks[t].project.files) = 1
         /\ Len(tasks[t].items) = 1
         /\ LoadedItems(tasks[t]) = {1}
         /\ Len(ItemRules(tasks[t], 1)) = 1
         /\ ItemRules(tasks[t], 1)[1].type = "not_empty")
        => LET rows == imp.workbook.sheets[1].rows
           IN  /\ RowsOf(tasks[t].all_errors) = {r \in 1..Len(rows) : rows[r][1] = Blank}
               /\ Len(tasks[t].all_errors) = Cardinality(RowsOf(tasks[t].all_errors))

\* C10: the required-field error-row count a finished run persists is the
\* number of distinct (file, sheet, row) triples that have an error on a
\* required field, and the count the results endpoint reports is the
\* persisted one.
C10_RequiredErrorRows ==
    /\ \A t \in TaskIds :
          tasks[t].pc = "done" =>
              \A k \in 1..Len(store.validation_results) :
                  store.validation_results[k].id = tasks[t].result_id =>
                      store.validation_results[k].error_rows =
                          Cardinality({<<e.file_name, e.sheet_name, e.row>> :
                                          e \in {x \in SeqToSet(tasks[t].all_errors) :
                                                    x.is_required}})
    /\ resp.status_code = 200 =>
          \A k \in 1..Len(store.validation_results) :
              store.validation_results[k].id = resp.result_id =>
                  resp.required_field_error_rows_count =
                      store.validation_results[k].error_rows

\* C3: in every status record written while the run is still Running the
\* percentage is min(99, processed / total * 100) (0 while total is 0), so it
\* never exceeds 99.
C3_RunningPercentageCapped ==
    VALIDATION_STATUS.is_running =>
        LET processed == VALIDATION_STATUS.processed_rows
            total == VALIDATION_STATUS.total_rows
            expected == IF total = 0 THEN <<0, 1>>
                        ELSE IF processed * 100 > 99 * total THEN <<99, 1>>
                        ELSE <<processed * 100, total>>
        IN  /\ VALIDATION_STATUS.percentage[1] * expected[2]
                   = expected[1] * VALIDATION_STATUS.percentage[2]
            /\ VALIDATION_STATUS.percentage[1] <= 99 * VALIDATION_STATUS.percentage[2]

\* the data rows of the active sheets of a project that have a sheets row
ActiveSheetRows(st, project) ==
    SumSeq(Flatten([i \in 1..Len(project.files) |->
        [j \in 1..Len(project.files[i].sheets) |->
            LET sh == project.files[i].sheets[j]
                row == FetchById(st.sheets, sh.id)
            IN  IF ~sh.is_active \/ row = << >> THEN 0 ELSE row[1].row_count]]))

\* every field of every active sheet of the project carries a rule
EveryFieldHasRule(project) ==
    \A i \in 1..Len(project.files) : \A j \in 1..Len(project.files[i].sheets) :
        \A k \in 1..Len(project.files[i].sheets[j].fields) :
            project.files[i].sheets[j].fields[k].rules # << >>

\* C11: the total_processed_rows of a completed run's result, as persisted
\* and as the results endpoint reports it, is the number of data rows of the
\* validated active sheets, whatever the number (at least one) of rules on
\* the fields.
C11_TotalProcessedRows ==
    \A t \in TaskIds :
        (tasks[t].pc = "done" /\ EveryFieldHasRule(tasks[t].project)) =>
            /\ \A k \in 1..Len(store.validation_results) :
                  store.validation_results[k].id = tasks[t].result_id =>
                      store.validation_results[k].total_rows =
                          ActiveSheetRows(store, tasks[t].project)
            /\ (resp.status_code = 200 /\ resp.result_id = tasks[t].result_id) =>
                  resp.total_processed_rows = ActiveSheetRows(store, tasks[t].project)

\* C14: a run that ended Failed has left the status not running with an
\* error message, the store holds no ValidationResult row of that run, and
\* the results endpoint has not answered with that run's result.
C14_FailedRunLeavesNoResult ==
    \A t \in TaskIds :
        tasks[t].pc = "failed" =>
            /\ ~VALIDATION_STATUS.is_running
            /\ VALIDATION_STATUS.message \in {"Error: project not found.",
                                              "Error: the workload could not be computed.",
                                              "Critical error during validation."}
            /\ \A r \in SeqToSet(store.validation_results) : r.id # tasks[t].result_id
            /\ resp.status_code = 200 => resp.result_id # tasks[t].result_id

\* C15: the store only ever holds committed writes.  Whenever it holds the
\* ValidationResult row of a run, it also holds every ValidationError the run
\* has found and the run's aggregates (the store never shows the result row
\* without them).
C15_ResultAndErrorsTogether ==
    \A t \in TaskIds :
        \A r \in SeqToSet(store.validation_results) :
            (tasks[t].pc # "none" /\ r.id = tasks[t].result_id) =>
                /\ Len(SelectSeq(store.validation_errors,
                                 LAMBDA e : e.result_id = r.id)) = Len(tasks[t].all_errors)
                /\ r.total_rows = tasks[t].total_operations

\* the row-wise check of rc on value ends in an exception of the validator
RowCheckRaises(rc, value) ==
    /\ ~Truthy(rc.group_id)
    /\ Truthy(rc.type)
    /\ rc.type \in RegisteredIds
    /\ Validator2(rc.type, value, rc.params).kind = "raise"

\* C16: a check whose validator raises is caught.  A row step whose row-wise
\* rules all raise records no error and advances the processed count by one
\* per rule; a column-rule step whose validator call ends in an exception
\* records no error and advances the count by the length of the column; in
\* both the run stays running and goes on to its next step.
C16_ValidatorExceptionCaught ==
    [][\A t \in TaskIds :
         LET tk == tasks[t]
             column == LoadColumn(ItemTable(store, tk.items[tk.item]),
                                  ItemCtx(tk).normalized_col_name)
         IN  /\ (tk.pc = "row" /\ tasks'[t] # tk
                 /\ \A m \in 1..Len(tk.row_rules) :
                        RowCheckRaises(tk.row_rules[m], column.values[tk.ri]))
                    => /\ tasks'[t].all_errors = tk.all_errors
                       /\ tasks'[t].processed_ops_count =
                              tk.processed_ops_count + Len(tk.row_rules)
                       /\ tasks'[t].pc \in {"row", "field", "persist"}
                       /\ VALIDATION_STATUS'.is_running
             /\ (tk.pc = "column" /\ tasks'[t] # tk)
                    => /\ tasks'[t].all_errors = tk.all_errors
                       /\ tasks'[t].processed_ops_count =
                              tk.processed_ops_count + Len(column.values)
                       /\ tasks'[t].pc \in {"column", "row", "field", "persist"}
                       /\ VALIDATION_STATUS'.is_running
      ]_vars

\* a run has completed over a column of two or more rows whose field carries
\* a row-wise rule that raises (not_empty) and the column rule: no error, and
\* every check counted
C16_Witness ==
    \E t \in TaskIds :
        /\ tasks[t].pc = "done"
        /\ VALIDATION_STATUS.message = "Validation finished."
        /\ \E n \in LoadedItems(tasks[t]) :
              /\ {ItemRules(tasks[t], n)[m].type : m \in 1..Len(ItemRules(tasks[t], n))}
                     = {"not_empty", "unique_value"}
              /\ Len(ItemColumn(tasks[t], n).values) >= 2
              /\ tasks[t].processed_ops_count = 2 * Len(ItemColumn(tasks[t], n).values)
        /\ tasks[t].all_errors = << >>

\* the workload as the stored structure gives it: over the active sheets, the
\* sheet's row_count times the number of rules stored on the sheet's fields
StoredWorkload(st) ==
    SumSeq([i \in 1..Len(st.sheets) |->
        IF st.sheets[i].is_active
        THEN st.sheets[i].row_count
             * Len(SelectSeq(st.rules,
                   LAMBDA r : \E k \in 1..Len(st.fields) :
                                 /\ st.fields[k].id = r.field_id
                                 /\ st.fields[k].sheet_id = st.sheets[i].id))
        ELSE 0])

\* C18: once the Preparing step has published the total, the total of the
\* Status Tracker (and the total the run works with) is the sum over the
\* active sheets only of row_count times the number of rules on the sheet's
\* fields.
C18_WorkloadActiveSheets ==
    \A t \in TaskIds :
        tasks[t].pc \in {"field", "column", "row", "persist"} =>
            /\ VALIDATION_STATUS.total_rows = StoredWorkload(store)
            /\ tasks[t].total_operations = StoredWorkload(store)

\* Preparing has published the total of a project with an active and an
\* inactive sheet, each with a row and a rule
C18_Witness ==
    \E t \in TaskIds :
        /\ tasks[t].pc = "field"
        /\ VALIDATION_STATUS.total_rows = 1
        /\ \E i, j \in 1..Len(store.sheets) :
              /\ store.sheets[i].is_active /\ ~store.sheets[j].is_active
              /\ store.sheets[i].row_count = 1 /\ store.sheets[j].row_count = 1
        /\ Len(store.rules) = 2

\* C19: while a run is in its Running phase (the total has been published)
\* the total of the Status Tracker is positive, also when the computed
\* workload is zero, and a run that completes publishes percentage 100.
C19_NominalTotal ==
    \A t \in TaskIds :
        /\ (tasks[t].pc \in {"field", "column", "row", "persist"}
            /\ VALIDATION_STATUS.is_running)
               => VALIDATION_STATUS.total_rows > 0
        /\ tasks[t].pc = "done" => VALIDATION_STATUS.percentage = <<100, 1>>

\* the inactive sheets of a project, each with the name of its file
InactiveSheets(project) ==
    UNION {{[file_name |-> project.files[i].name, sheet |-> project.files[i].sheets[j]] :
               j \in {n \in 1..Len(project.files[i].sheets) :
                          ~project.files[i].sheets[n].is_active}} :
           i \in 1..Len(project.files)}

\* the project without its inactive sheets
ActiveOnly(project) ==
    [project EXCEPT !.files =
        [i \in 1..Len(project.files) |->
            [project.files[i] EXCEPT !.sheets = SelectSeq(@, LAMBDA sh : sh.is_active)]]]

\* some active sheet of the project goes by the same file and sheet name
NamesShared(project, x) ==
    \E i \in 1..Len(project.files) : \E j \in 1..Len(project.files[i].sheets) :
        /\ project.files[i].sheets[j].is_active
        /\ project.files[i].name = x.file_name
        /\ project.files[i].sheets[j].name = x.sheet.name

\* C20: a sheet with is_active = false is left out of a run and keeps its
\* data.  No step of a run changes the sheets, fields, rules or data tables
\* of the store; the run's workload is the workload of the project without
\* its inactive sheets; and no error, collected or persisted, names an
\* inactive sheet (a sheet whose file and sheet name no active sheet shares).
C20_InactiveSheetExcluded ==
    [][ /\ store'.sheets = store.sheets
        /\ store'.fields = store.fields
        /\ store'.rules = store.rules
        /\ store'.tables = store.tables
        /\ \A t \in TaskIds :
             tasks'[t].pc \in {"field", "column", "row", "persist", "done"} =>
                /\ tasks'[t].total_operations
                       = TotalOperations(store', ActiveOnly(tasks'[t].project))
                /\ \A x \in InactiveSheets(tasks'[t].project) :
                     ~NamesShared(tasks'[t].project, x) =>
                        /\ \A e \in SeqToSet(tasks'[t].all_errors) :
                              ~(e.file_name = x.file_name /\ e.sheet_name = x.sheet.name)
                        /\ \A e \in SeqToSet(store'.validation_errors) :
                              ~(e.file_name = x.file_name /\ e.sheet_name = x.sheet.name)
      ]_vars

\* a run has completed over an active and an inactive sheet of different
\* names, both holding the cell "a" under the rule is_number: the errors are
\* the active sheet's
C20_Witness ==
    \E t \in TaskIds :
        /\ tasks[t].pc = "done"
        /\ \E x \in InactiveSheets(tasks[t].project) :
              /\ ~NamesShared(tasks[t].project, x)
              /\ \E s \in SeqToSet(store.sheets) :
                    /\ s.id = x.sheet.id
                    /\ s.row_count = 1
                    /\ store.tables[s.data_table_name].rows[1].cells = <<"a">>
              /\ x.sheet.fields[1].rules # << >>
        /\ Len(store.sheets) = 2
        /\ Len(store.validation_errors) = 1

\* the error counts of a report, summed over its files, sheets and rules
ReportedErrorCount(file_results) ==
    SumSeq(Flatten(Flatten(
        [i \in 1..Len(file_results) |->
            [j \in 1..Len(file_results[i].sheets) |->
                [n \in 1..Len(file_results[i].sheets[j].rule_summaries) |->
                    file_results[i].sheets[j].rule_summaries[n].error_count]]])))

\* C23: the report is complete and lists no error twice.  In a report the
\* results endpoint has returned, the per-rule error counts of all sheets sum
\* to the number of errors persisted for the reported result (every sheet of
\* the runs considered is active while its errors are recorded).
C23_ReportComplete ==
    resp.status_code = 200 =>
        ReportedErrorCount(resp.file_results)
            = Len(SelectSeq(store.validation_errors,
                            LAMBDA e : e.result_id = resp.result_id))

\* the run has computed its workload and published at least the Checking
\* status
RunCounting(t) == tasks[t].pc \in {"field", "column", "row", "persist", "done"}

UpdateRuleSeqs ==
    LET UpdateRule(id, type, group_id, order) ==
            [id |-> id, type |-> type, group_id |-> group_id, params |-> NoParams,
             order |-> order]
    IN  {<< >>,
         <<UpdateRule("r1", "is_number", None, 1)>>,
         <<UpdateRule("r1", None, "grp_1", 1)>>,
         <<UpdateRule("r1", "no_such_rule", None, 1)>>,
         <<UpdateRule("r1", None, None, 1)>>,
         <<UpdateRule("r1", "not_empty", None, 2), UpdateRule("r2", "is_number", None, 1)>>,
         <<UpdateRule("r1", "is_number", None, 1), UpdateRule("r1", "not_empty", None, 2)>>}

\* request bodies: the imported file with one sheet (the stored one or a new
\* id) holding one field (the stored one, the stored one renamed, or a new
\* id), the body without files, and the stored structure under another file
\* name
UpdateRequests ==
    LET UpdateBase == _build_project_model_from_db(OneFileStore).files[1]
        stored == UpdateBase.sheets[1].fields[1]
        UpdateFields ==
            {[id |-> stored.id, name |-> stored.name, is_required |-> FALSE],
             [id |-> stored.id, name |-> "B", is_required |-> TRUE],
             [id |-> "c_new", name |-> "N", is_required |-> FALSE]}
    IN  {[id |-> ProjectId,
          files |-> <<[UpdateBase EXCEPT !.sheets =
                          <<[id |-> sid, name |-> UpdateBase.sheets[1].name, is_active |-> a,
                             fields |-> <<[id |-> fd.id, name |-> fd.name,
                                           is_required |-> fd.is_required,
                                           rules |-> rs]>>]>>]>>] :
            sid \in {UpdateBase.sheets[1].id, "s_new"}, a \in BOOLEAN,
            fd \in UpdateFields, rs \in UpdateRuleSeqs}
        \cup {[id |-> ProjectId, files |-> << >>],
              [id |-> ProjectId, files |-> <<[UpdateBase EXCEPT !.name = "renamed.xls"]>>]}

\* the store after one completed run over the configured file: the result
\* row and the error of the cell that is not a number
ValidatedStore ==
    [ConfiguredStore(<<"w.xls">>, <<OneColumnBook("S", <<"a">>)>>,
                     <<[is_active |-> TRUE, field_name |-> "A", is_required |-> FALSE]>>,
                     <<<<[type |-> "is_number", group_id |-> None]>>>>)
        EXCEPT !.validation_results =
                   <<[id |-> 1, validated_at |-> 0, total_rows |-> 1, error_rows |-> 0]>>,
               !.validation_errors =
                   <<[result_id |-> 1, file_name |-> "w.xls", sheet_name |-> "S",
                      field_name |-> "A", row_number |-> 1,
                      error_type |-> RULE_REGISTRY["is_number"].name, value |-> "a",
                      details |-> None, is_required |-> FALSE]>>]

InitUpdate ==
    /\ call = NoCall
    /\ imp = ImportDone(OneColumnBook("S", <<"a">>))
    /\ \/ store = OneFileStore
       \/ store = ConfiguredStore(<<"w.xls">>, <<OneColumnBook("S", <<"a">>)>>,
                                  <<[is_active |-> TRUE, field_name |-> "A",
                                     is_required |-> FALSE]>>,
                                  <<<<[type |-> "is_number", group_id |-> None]>>>>)
       \/ store = ValidatedStore
    /\ VALIDATION_STATUS = NoStatus
    /\ tasks = NoTasks
    /\ loop = 0
    /\ RULE_GROUPS_REGISTRY = Groups
    /\ svc = IdleSvc
    /\ env = [IdleEnv EXCEPT !.updates = 2]
    /\ resp = NoResp

NextUpdate ==
    \E project_id \in {ProjectId, "p2"}, project_update \in UpdateRequests :
        /\ project_id # ProjectId => project_update.files = << >>
        /\ update_full_project(project_id, project_update)

SpecUpdate == InitUpdate /\ [][NextUpdate]_vars

StoredIds(table) == [i \in 1..Len(table) |-> table[i].id]

\* C13: applying the same full-structure snapshot a second time leaves the
\* stored Sheets, Fields and Rules exactly as the first application left
\* them, and no id is stored twice.
C13_UpsertIdempotent ==
    (call.fn = "update_full_project" /\ call.result = 200 /\ call.repeated) =>
        /\ store.sheets = call.before.sheets
        /\ store.fields = call.before.fields
        /\ store.rules = call.before.rules
        /\ ~HasDuplicates(StoredIds(store.sheets))
        /\ ~HasDuplicates(StoredIds(store.fields))
        /\ ~HasDuplicates(StoredIds(store.rules))

\* the second application of a snapshot that added a sheet, a field and two
\* rules
C13_Witness ==
    /\ call.fn = "update_full_project" /\ call.result = 200 /\ call.repeated
    /\ Len(call.project_update.files) = 1
    /\ call.project_update.files[1].sheets[1].id = "s_new"
    /\ call.project_update.files[1].sheets[1].fields[1].id = "c_new"
    /\ Len(call.project_update.files[1].sheets[1].fields[1].rules) = 2
    /\ Len(store.rules) >= 2

\* the rule types of the rules a snapshot carries
SnapshotRuleTypes(project_update) ==
    {SnapshotRules(project_update)[k].rule_type :
        k \in 1..Len(SnapshotRules(project_update))}

\* C17: a structure update whose snapshot carries a rule with a rule type
\* that the Rule Registry does not hold is rejected (no 200 answer) and the
\* stored structure is left as it was.
C17_UnknownRuleTypeRejected ==
    (/\ call.fn = "update_full_project"
     /\ \E ty \in SnapshotRuleTypes(call.project_update) :
            ty # None /\ ty \notin RegisteredIds)
        => /\ call.result # 200
           /\ store = call.before

\* C26: after a successful full-structure update the stored structure is
\* the snapshot: re-reading the project gives exactly the sheets, fields and
\* rules of the snapshot (a snapshot that holds the file and names no id
\* twice), so what was stored before and is absent from the snapshot is gone.
C26_StoredEqualsSnapshot ==
    (/\ call.fn = "update_full_project" /\ call.result = 200
     /\ call.project_update.files # << >>
     /\ ~HasDuplicates(StoredIds(SnapshotRules(call.project_update))))
        => LET project == _build_project_model_from_db(store)
           IN  /\ project.found
               /\ SeqToSet(SnapshotSheets(project))
                      = SeqToSet(SnapshotSheets(call.project_update))
               /\ SeqToSet(SnapshotFields(project))
                      = SeqToSet(SnapshotFields(call.project_update))
               /\ SeqToSet(SnapshotRules(project))
                      = SeqToSet(SnapshotRules(call.project_update))

\* C30: a full-structure upsert changes id-keyed structure attributes only.
\* After a successful update every File row, every data table and every
\* stored validation result and error is as before, and every Sheet that
\* existed before keeps its data_table_name and its row_count.
C30_UpsertFrame ==
    (call.fn = "update_full_project" /\ call.result = 200)
        => /\ store.files = call.before.files
           /\ store.tables = call.before.tables
           /\ store.validation_results = call.before.validation_results
           /\ store.validation_errors = call.before.validation_errors
           /\ \A i \in 1..Len(call.before.sheets) :
                 \E j \in 1..Len(store.sheets) :
                    /\ store.sheets[j].id = call.before.sheets[i].id
                    /\ store.sheets[j].data_table_name
                           = call.before.sheets[i].data_table_name
                    /\ store.sheets[j].row_count = call.before.sheets[i].row_count

\* a snapshot that deactivates the imported sheet, renames its field and
\* adds rules has been applied to a store that holds a data table, a
\* validation result and a validation error
C30_Witness ==
    /\ call.fn = "update_full_project" /\ call.result = 200
    /\ call.before = ValidatedStore
    /\ store # call.before
    /\ Len(call.project_update.files) = 1
    /\ LET sh == call.project_update.files[1].sheets[1]
       IN  /\ sh.id = call.before.sheets[1].id
           /\ ~sh.is_active
           /\ sh.fields[1].name = "B"
           /\ Len(sh.fields[1].rules) = 2
    /\ call.before.sheets[1].row_count = 1
    /\ call.before.sheets[1].data_table_name # None

(***************************************************************************)
(* SpecGroup: a rule group is deleted before, or after, one validation     *)
(* run over a project whose rules reference it.                            *)
(***************************************************************************)
InitGroup ==
    /\ call = NoCall
    /\ \E cells \in SeqsUpTo(RunCells, MaxRows), q \in BOOLEAN,
          rs \in SeqsUpTo({[type |-> None, group_id |-> "grp_1"],
                           [type |-> "is_number", group_id |-> None]}, MaxRules) :
          /\ imp = ImportDone(OneColumnBook("S", cells))
          /\ store = ConfiguredStore(<<"w.xls">>, <<OneColumnBook("S", cells)>>,
                        <<[is_active |-> TRUE, field_name |-> "A", is_required |-> q]>>,
                        <<rs>>)
    /\ VALIDATION_STATUS = NoStatus
    /\ tasks = NoTasks
    /\ loop = 0
    /\ RULE_GROUPS_REGISTRY = Groups
    /\ svc = IdleSvc
    /\ env = [IdleEnv EXCEPT !.starts = 1, !.results = 1, !.group_deletes = 1]
    /\ resp = NoResp

NextGroup ==
    \/ \E group_id \in {"grp_1", "grp_2"} : delete_rule_group(group_id)
    \/ validate_project_data
    \/ \E t \in TaskIds : RunBuild(t)
    \/ \E t \in TaskIds : RunPrepare(t)
    \/ \E t \in TaskIds : RunField(t)
    \/ \E t \in TaskIds : RunRow(t)
    \/ \E t \in TaskIds : RunPersist(t)
    \/ get_validation_results

SpecGroup == InitGroup /\ [][NextGroup]_vars

\* the rule references a group that the registry does not hold
GroupMissing(rc) == Truthy(rc.group_id) /\ rc.group_id \notin DOMAIN RULE_GROUPS_REGISTRY

\* C22: deleting a rule group deletes no rule: the step that removes a group
\* from the registry leaves the store as it is.  In a later run, a row step
\* whose rules all reference a missing group records no error, counts one
\* operation per rule, and the run stays running and goes on.
C22_GroupDeleteKeepsRules ==
    [][ /\ RULE_GROUPS_REGISTRY' # RULE_GROUPS_REGISTRY => store' = store
        /\ \A t \in TaskIds :
             (/\ tasks[t].pc = "row" /\ tasks'[t] # tasks[t]
              /\ \A m \in 1..Len(tasks[t].row_rules) : GroupMissing(tasks[t].row_rules[m]))
                 => /\ tasks'[t].all_errors = tasks[t].all_errors
                    /\ tasks'[t].processed_ops_count =
                           tasks[t].processed_ops_count + Len(tasks[t].row_rules)
                    /\ tasks'[t].pc \in {"row", "field", "persist"}
                    /\ VALIDATION_STATUS'.is_running
      ]_vars

\* a run has completed after the deletion of the group that its stored rule
\* references: every operation counted, the rule still stored
C22_Witness ==
    \E t \in TaskIds :
        /\ tasks[t].pc = "done"
        /\ "grp_1" \notin DOMAIN RULE_GROUPS_REGISTRY
        /\ \E k \in 1..Len(store.rules) : store.rules[k].group_id = "grp_1"
        /\ \A k \in 1..Len(tasks[t].project.files[1].sheets[1].fields[1].rules) :
              GroupMissing(tasks[t].project.files[1].sheets[1].fields[1].rules[k])
        /\ tasks[t].total_operations >= 2
        /\ tasks[t].processed_ops_count = tasks[t].total_operations
        /\ tasks[t].all_errors = << >>
        /\ VALIDATION_STATUS.message = "Validation finished."

(***************************************************************************)
(* SpecLive: one validation run of main.py under fair scheduling: a step   *)
(* of a run task that can be taken is eventually taken (the worker thread  *)
(* returns, the event loop resumes the task and runs it to its end).       *)
(***************************************************************************)
RunStep ==
    \/ \E t \in TaskIds : RunBuild(t)
    \/ \E t \in TaskIds : RunPrepare(t)
    \/ \E t \in TaskIds : RunField(t)
    \/ \E t \in TaskIds : RunRow(t)
    \/ \E t \in TaskIds : RunPersist(t)

NextLive == validate_project_data \/ RunStep

SpecLive == InitGroup /\ [][NextLive]_vars /\ WF_vars(RunStep)

\* C24: every started run reaches a terminal state: once a run task has been
\* launched, the status record eventually shows is_running = false, whatever
\* the outcome of preparation, rule evaluation and persistence is.
C24_RunTerminates ==
    (\E t \in TaskIds : tasks[t].pc = "created") ~> ~VALIDATION_STATUS.is_running

(***************************************************************************)
(* SpecStart: concurrent start requests against one project, in main.py    *)
(* and in the dqmaster service.                                            *)
(***************************************************************************)
SvcWorkloads == {0, 2, 150}

InitStart ==
    /\ call = NoCall
    /\ \E cells \in SeqsUpTo({"a"}, MaxRows) :
          /\ imp = ImportDone(OneColumnBook("S", cells))
          /\ store = ConfiguredStore(<<"w.xls">>, <<OneColumnBook("S", cells)>>,
                        <<[is_active |-> TRUE, field_name |-> "A", is_required |-> FALSE]>>,
                        <<<<[type |-> "is_number", group_id |-> None]>>>>)
    /\ VALIDATION_STATUS = NoStatus
    /\ tasks = NoTasks
    /\ loop = 0
    /\ RULE_GROUPS_REGISTRY = Groups
    /\ svc = IdleSvc
    /\ \E w \in SvcWorkloads :
          env = [IdleEnv EXCEPT !.starts = MaxTasks, !.svc_starts = MaxTasks,
                                !.svc_workload = w, !.polls = 1]
    /\ resp = NoResp

NextStart ==
    \/ validate_project_data
    \/ \E t \in TaskIds : RunBuild(t)
    \/ \E t \in TaskIds : RunPrepare(t)
    \/ \E t \in TaskIds : RunField(t)
    \/ \E t \in TaskIds : RunRow(t)
    \/ \E t \in TaskIds : RunPersist(t)
    \/ SvcValidateProjectData
    \/ \E c \in TaskIds : start_validation(c)
    \/ \E c \in TaskIds : SvcRunBegin(c)
    \/ \E c \in TaskIds : SvcRunCalc(c)
    \/ \E c \in TaskIds : SvcRunLoop(c)
    \/ get_validation_status
    \/ SvcGetValidationStatus

SpecStart == InitStart /\ [][NextStart]_vars

RunInProgress(t) == tasks[t].pc \in {"created", "built", "field", "column", "row", "persist"}
SvcRunInProgress(c) == svc.chains[c].pc \in {"run", "calc", "sleep"}

\* C1: at any time at most one validation run of the project is in progress,
\* in main.py and in the dqmaster service: a start request made while the
\* status record is Running launches no second run task.
C1_AtMostOneRun ==
    /\ Cardinality({t \in TaskIds : RunInProgress(t)}) <= 1
    /\ Cardinality({c \in TaskIds : SvcRunInProgress(c)}) <= 1

\* C21: a status poll is not blocked behind a running validation.  Whenever a
\* run is between two batches (it is running and has processed some but not
\* all of its operations) and a poll is waiting, the poll can be served.
C21_PollNotBlocked ==
    /\ \A t \in TaskIds :
          (/\ env.polls > 0
           /\ VALIDATION_STATUS.is_running
           /\ tasks[t].pc \in {"field", "column", "row", "persist"}
           /\ 0 < tasks[t].processed_ops_count
           /\ tasks[t].processed_ops_count < tasks[t].total_operations)
              => ENABLED get_validation_status
    /\ \A c \in TaskIds :
          (/\ env.polls > 0
           /\ svc.chains[c].pc = "sleep"
           /\ svc.chains[c].processed_ops_count < svc.chains[c].total_operations)
              => ENABLED SvcGetValidationStatus

\* C25: between the answer "started" to a start request and the terminal
\* state of the run it launched, every status poll answers is_running = true.
\* For main.py: a poll served while a launched run has not ended.  For the
\* dqmaster service: a poll served while the only start request made so far
\* has been answered "started" and its run has not ended.
C25_PollSeesRunning ==
    [][ /\ (/\ env'.polls < env.polls
            /\ call'.fn = "get_validation_status"
            /\ \E t \in TaskIds : RunInProgress(t))
               => call'.result.is_running
        /\ (/\ env'.polls < env.polls
            /\ call'.fn = "ValidationService.get_validation_status"
            /\ \E c \in TaskIds :
                  /\ svc.chains[c].pc \in {"start", "run", "calc", "sleep"}
                  /\ \A u \in TaskIds \ {c} : svc.chains[u].pc = "none")
               => call'.result.is_running
      ]_vars

\* C29: once a run has computed its workload, the status record reports it
\* as total_rows in every later snapshot of that run, progress updates and
\* the terminal status included.  Stated for a run that is the only one
\* started so far, in main.py and in the dqmaster service.
C29_TotalRowsKept ==
    /\ \A t \in TaskIds :
          (/\ RunCounting(t)
           /\ \A u \in TaskIds \ {t} : tasks[u].pc = "none")
              => VALIDATION_STATUS.total_rows = tasks[t].total_operations
    /\ \A c \in TaskIds :
          (/\ svc.chains[c].pc \in {"sleep", "done"}
           /\ \A u \in TaskIds \ {c} : svc.chains[u].pc = "none")
              => svc.status.total_rows = svc.chains[c].total_operations

(***************************************************************************)
(* SpecPure: the pure operators above applied to bounded inputs.           *)
(***************************************************************************)
Absent == "<absent>"

\* the dict {k: v}, or the empty dict when the key is left out
Entry(k, v) == IF v = Absent THEN EmptyDict ELSE (k :> v)

TypeInputs == {Absent, None, "", "is_number"}
GroupIdInputs == {Absent, None, "", "grp_1"}
\* 0 stands for a dict without the key order
OrderInputs == 0..MaxOrder
OrderEntry(o) == IF o = 0 THEN EmptyDict ELSE ("order" :> o)

RuleCalls ==
    {[fn |-> "Rule",
      values |-> Entry("type", t) @@ Entry("group_id", g) @@ OrderEntry(o),
      done |-> FALSE, result |-> EmptyDict] :
        t \in TypeInputs, g \in GroupIdInputs, o \in OrderInputs}

GroupValues == {None, "", " a", "a", "1"}
MemberIds == RegisteredIds \cup {"no_such_rule"}

GroupCalls ==
    {[fn |-> "_validate_group", value |-> v,
      group |-> [id |-> "grp_1", name |-> "G", logic |-> l, rules |-> rs],
      done |-> FALSE, result |-> EmptyDict] :
        v \in GroupValues, l \in {"AND", "OR"},
        rs \in SeqsUpTo({[id |-> i, params |-> NoParams] : i \in MemberIds}, MaxGroupRules)}

ColumnValues == {None, "", "a", "A", "b"}

\* a Series of the given values: RangeIndex (base 0, the pandas default) or the
\* _row_id index the orchestrator loads a column with (base 1)
Series(values, base) ==
    [index |-> [k \in 1..Len(values) |-> base + k - 1], values |-> values]

ColumnCalls ==
    {[fn |-> "validate_column", column |-> Series(vs, base), params |-> ps,
      done |-> FALSE, result |-> EmptyDict] :
        vs \in SeqsUpTo(ColumnValues, MaxCol), base \in {0, 1},
        ps \in {NoParams, [case_sensitive |-> FALSE]}}

CallRule ==
    /\ call.fn = "Rule" /\ ~call.done
    /\ call' = [call EXCEPT !.done = TRUE, !.result = Rule(call.values)]
    /\ UNCHANGED <<store, imp, VALIDATION_STATUS, tasks, loop, RULE_GROUPS_REGISTRY, svc, env, resp>>

CallValidateGroup ==
    /\ call.fn = "_validate_group" /\ ~call.done
    /\ call' = [call EXCEPT !.done = TRUE,
                            !.result = _validate_group(call.value, call.group)]
    /\ UNCHANGED <<store, imp, VALIDATION_STATUS, tasks, loop, RULE_GROUPS_REGISTRY, svc, env, resp>>

CallValidateColumn ==
    /\ call.fn = "validate_column" /\ ~call.done
    /\ call' = [call EXCEPT !.done = TRUE,
                            !.result = validate_column(call.column, call.params)]
    /\ UNCHANGED <<store, imp, VALIDATION_STATUS, tasks, loop, RULE_GROUPS_REGISTRY, svc, env, resp>>

InitPure ==
    /\ call \in RuleCalls \cup GroupCalls \cup ColumnCalls
    /\ store = EmptyStore
    /\ imp = IdleImport
    /\ VALIDATION_STATUS = NoStatus
    /\ tasks = NoTasks
    /\ loop = 0
    /\ RULE_GROUPS_REGISTRY = Groups
    /\ svc = IdleSvc
    /\ env = IdleEnv
    /\ resp = NoResp

NextPure == CallRule \/ CallValidateGroup \/ CallValidateColumn

SpecPure == InitPure /\ [][NextPure]_vars

(***************************************************************************)
(* Claims settled under SpecPure.                                          *)
(***************************************************************************)
IsSet(values, k) == Get(values, k) # None

\* C5: a Rule is constructed iff exactly one of type and group_id is set (is
\* not None): with both set or with neither set the construction fails with a
\* validation error, and with exactly one set (and the required order given)
\* it succeeds and keeps the given reference.
C5_RuleTypeXorGroup ==
    (call.fn = "Rule" /\ call.done) =>
        LET t == IsSet(call.values, "type")
            g == IsSet(call.values, "group_id")
        IN  /\ (t /\ g) => call.result.raised = "ValidationError"
            /\ (~t /\ ~g) => call.result.raised = "ValidationError"
            /\ ((t # g) /\ "order" \in DOMAIN call.values) =>
                   /\ call.result.raised = ""
                   /\ call.result.rule.type = Get(call.values, "type")
                   /\ call.result.rule.group_id = Get(call.values, "group_id")

\* C5 witness: a construction with both references set has been rejected
C5_Witness ==
    /\ call.fn = "Rule" /\ call.done
    /\ IsSet(call.values, "type") /\ IsSet(call.values, "group_id")
    /\ call.result.raised = "ValidationError"

\* the verdict of a registered member rule on a value
MemberFails(ref, value) ==
    ~CoerceIsValid(IF RULE_REGISTRY[ref.id].has_params
                   THEN Validator2(ref.id, value, ref.params)
                   ELSE Validator1(ref.id, value))

\* C6: _validate_group combines the verdicts of the group's member rules (the
\* members the Rule Registry knows): under OR the value is invalid iff at
\* least one member fails on it, under AND it is invalid iff all members fail.
C6_GroupLogic ==
    (call.fn = "_validate_group" /\ call.done) =>
        LET refs == call.group.rules
            known == {i \in 1..Len(refs) : refs[i].id \in RegisteredIds}
        IN  /\ call.group.logic = "OR" =>
                (~call.result.is_valid <=>
                    \E i \in known : MemberFails(refs[i], call.value))
            /\ call.group.logic = "AND" =>
                (~call.result.is_valid <=>
                    \A i \in known : MemberFails(refs[i], call.value))

\* C6 witness: an AND group with one failing and one passing member reported valid
C6_Witness ==
    /\ call.fn = "_validate_group" /\ call.done
    /\ call.group.logic = "AND"
    /\ Len(call.group.rules) = 2
    /\ \A i \in 1..2 : call.group.rules[i].id \in RegisteredIds
    /\ MemberFails(call.group.rules[1], call.value)
    /\ ~MemberFails(call.group.rules[2], call.value)
    /\ call.result.is_valid

\* C8: validate_column returns one verdict per row, aligned with the rows of
\* the column whatever labels index it: row k is flagged invalid iff its
\* non-empty value occurs in at least one other row.
C8_UniqueAligned ==
    (call.fn = "validate_column" /\ call.done) =>
        LET vals == call.column.values
            n == Len(vals)
            cs == IF "case_sensitive" \in DOMAIN call.params
                  THEN call.params["case_sensitive"] ELSE TRUE
            nonEmpty(k) == ~IsNa(vals[k]) /\ Strip(vals[k]) # ""
        IN  /\ call.result.raised = ""
            /\ Len(call.result.is_valid) = n
            /\ \A k \in 1..n :
                   ~call.result.is_valid[k] <=>
                       /\ nonEmpty(k)
                       /\ \E j \in (1..n) \ {k} :
                              nonEmpty(j) /\ UniqueKey(vals[j], cs) = UniqueKey(vals[k], cs)

\* C27: _validate_group reports an error for a value only if the validator
\* of at least one member rule returned invalid for it; a group without
\* members, or whose members the Rule Registry does not know, reports valid
\* under AND and under OR.
C27_GroupErrorNeedsFailingMember ==
    (call.fn = "_validate_group" /\ call.done /\ ~call.result.is_valid) =>
        \E i \in 1..Len(call.group.rules) :
            /\ call.group.rules[i].id \in RegisteredIds
            /\ MemberFails(call.group.rules[i], call.value)

====
